---- MODULE Spec2Model ----
(***************************************************************************)
(* A model of the VoiceSentinel server (src/server): the per-client audio  *)
(* buffer, the websocket connection manager and its chunk pipeline, the    *)
(* text scam scorer and risk fusion, the segment pipeline of the           *)
(* controllers, and the online speaker registry.                           *)
(*                                                                         *)
(* Each subsystem has its own specification over its own variables; the    *)
(* variables of the other subsystems are pinned by Idle* and left          *)
(* unchanged.                                                              *)
(*   SpecBuf   AudioBuffer (audio_processor.py)                            *)
(*   SpecFuse  ScamDetector.analyze_text, calculate_risk_score,            *)
(*             get_risk_level, TTSAlerts._determine_alert_type             *)
(*   SpecDiar  DiarizationService.assign_speaker / reset_speakers          *)
(*   SpecSpans DiarizationService.diarize_segments                         *)
(*   Spec      ConnectionManager, websocket_endpoint, process_audio_chunk  *)
(*   SpecAlert OpenAIService.detect_scam_intent, AntiSpoofingService,      *)
(*             AlertController.generate_and_send_alert                     *)
(*   SpecReport ReportController.generate_incident_report                  *)
(*   SpecPipe  AudioController.process_audio_chunk                         *)
(*   SpecVerif VerificationController (safe list of voice prints)          *)
(*   SpecVad   detect_speech_segments (energy-based VAD)                   *)
(*   SpecCall  AudioController over successive calls                       *)
(*   SpecCache AudioProcessor's transcription cache                        *)
(***************************************************************************)
EXTENDS Integers, Sequences, FiniteSets, TLC

VARIABLES
    \* ---- AudioBuffer (audio_processor.py:20-51)
    max_duration,   \* constructor argument, in half seconds
    buffer,         \* self.buffer, a deque with maxlen = max_samples
    timestamps,     \* self.timestamps, a deque without maxlen
    now,            \* the wall clock time.time(), in half seconds
    appended,       \* history: every sample ever passed to add_chunk, in order
    last_chunk,     \* history: the argument of the latest add_chunk call
    recent,         \* history: the latest get_recent_audio call and its result
                    \* (asked = -1 before the first call)
    \* ---- ScamDetector and risk fusion (scam_detector.py, main.py:337-366)
    use_openai,     \* ScamDetector.use_openai, fixed by __init__
    f_text,         \* the text under analysis, as the detector reads it
    f_voice,        \* what detect_spoofing measures of the audio
    f_out,          \* the outcome of the analysis of f_text and f_voice
    f_again,        \* the outcome of a second analysis of the same inputs
    \* ---- DiarizationService (services/diarization_service.py)
    speaker_embeddings, \* the dict {speaker_id: embedding}, in insertion order
    speaker_id_counter, \* self.speaker_id_counter
    d_calls,            \* history: number of segment embeddings assigned so far
    d_probes,           \* history: number of calls that passed a stored centroid
    d_last,             \* history: the latest assign_speaker call
    \* ---- segment analysis and alerts (services/openai_service.py,
    \*      services/anti_spoofing_service.py, controllers/alert_controller.py)
    a_results,          \* the AnalysisResult objects built so far
    a_alerts,           \* one entry per generate_and_send_alert call, in order
    \* ---- the WebSocket server (main.py)
    active_connections, \* manager.active_connections: client id -> websocket
    client_sessions,    \* manager.client_sessions: client id -> session dict
    client_buffers,     \* audio_processor.client_buffers: client id -> samples
    connection_count,   \* performance_monitor.connection_count
    saved,              \* the call records handed to db_manager.save_call_record
    conns,              \* the websocket_endpoint coroutines started so far
    jobs,               \* the process_audio_chunk / send calls suspended at an await;
                        \* seq numbers the messages in their order of arrival
    sent,               \* per websocket, the messages delivered on it
    closed,             \* history: client ids disconnected since their last connect
    \* ---- ReportController (controllers/report_controller.py)
    r_results,          \* all_analysis_results collected during the call
    r_report,           \* the latest IncidentReport generated
    \* ---- AudioController.process_audio_chunk (controllers/audio_controller.py)
    p_segments,         \* the diarized segments of the chunk being processed
    p_done,             \* how many of them the loop has gone through
    p_results,          \* the local list results
    p_status,           \* "running", "returned" (results handed back) or "raised"
    p_events,           \* what the loop did on the latest segment, in order
    \* ---- VerificationController (controllers/verification_controller.py)
    safe_list_voice_prints, \* name -> enrolled voice embedding
    v_calls,            \* enroll_voice and verify_caller_voice calls so far
    v_last,             \* the latest call, when it was verify_caller_voice
    \* ---- detect_speech_segments (audio_processing.py)
    vad_audio,          \* audio_data, samples in sixteenths
    vad_rate,           \* sample_rate
    vad_min,            \* min_speech_duration, in hundredths of a second
    vad_out,            \* the list returned, once the function has run
    \* ---- AudioController over calls (controllers/audio_controller.py)
    c_calls,            \* calls begun: chunks passed with current_time_offset 0
    c_first,            \* the latest span diarized was the first of its call
    \* ---- AudioProcessor's transcription cache (audio_processor.py)
    transcription_cache,    \* the dict, as its items in insertion order
    lru,                \* the lru_cache of _get_cached_transcription, least recent first
    t_calls,            \* transcribe_chunk calls so far
    t_last              \* the lookup of the latest call

bufVars == <<max_duration, buffer, timestamps, now, appended, last_chunk, recent>>

fuseVars == <<use_openai, f_text, f_voice, f_out, f_again>>

diarVars == <<speaker_embeddings, speaker_id_counter, d_calls, d_probes, d_last>>

alertVars == <<a_results, a_alerts>>

srvVars == <<active_connections, client_sessions, client_buffers, connection_count,
             saved, conns, jobs, sent, closed>>

reportVars == <<r_results, r_report>>

\* the variables of the controllers outside the websocket server
pipeVars == <<p_segments, p_done, p_results, p_status, p_events>>

verifVars == <<safe_list_voice_prints, v_calls, v_last>>

vadVars == <<vad_audio, vad_rate, vad_min, vad_out>>

callVars == <<c_calls, c_first>>

cacheVars == <<transcription_cache, lru, t_calls, t_last>>

moreVars == <<reportVars, pipeVars, verifVars, vadVars, callVars, cacheVars>>

\* the variables of the server, its buffer, scorers and services
coreVars == <<bufVars, fuseVars, diarVars, alertVars, srvVars>>

vars == <<bufVars, fuseVars, diarVars, alertVars, srvVars, moreVars>>

None == "none"

(***************************************************************************)
(* The state of a subsystem that a specification does not exercise.        *)
(***************************************************************************)
IdleBuf ==
    /\ max_duration = 0
    /\ buffer = <<>>
    /\ timestamps = <<>>
    /\ now = 0
    /\ appended = <<>>
    /\ last_chunk = <<>>
    /\ recent = <<>>

IdleFuse ==
    /\ use_openai = FALSE
    /\ f_text = <<>>
    /\ f_voice = <<>>
    /\ f_out = <<>>
    /\ f_again = <<>>

IdleDiar ==
    /\ speaker_embeddings = <<>>
    /\ speaker_id_counter = 0
    /\ d_calls = 0
    /\ d_probes = 0
    /\ d_last = <<>>

IdleAlert ==
    /\ a_results = <<>>
    /\ a_alerts = <<>>

IdleReport ==
    /\ r_results = <<>>
    /\ r_report = <<>>

IdlePipe ==
    /\ p_segments = <<>>
    /\ p_done = 0
    /\ p_results = <<>>
    /\ p_status = "idle"
    /\ p_events = <<>>

IdleVerif ==
    /\ safe_list_voice_prints = <<>>
    /\ v_calls = 0
    /\ v_last = [called |-> FALSE]

IdleVad ==
    /\ vad_audio = <<>>
    /\ vad_rate = 0
    /\ vad_min = 0
    /\ vad_out = [done |-> FALSE]

IdleCall ==
    /\ c_calls = 0
    /\ c_first = FALSE

IdleCache ==
    /\ transcription_cache = <<>>
    /\ lru = <<>>
    /\ t_calls = 0
    /\ t_last = [called |-> FALSE]

IdleMore ==
    /\ IdleReport
    /\ IdlePipe
    /\ IdleVerif
    /\ IdleVad
    /\ IdleCall
    /\ IdleCache

IdleSrv ==
    /\ active_connections = <<>>
    /\ client_sessions = <<>>
    /\ client_buffers = <<>>
    /\ connection_count = 0
    /\ saved = <<>>
    /\ conns = <<>>
    /\ jobs = {}
    /\ sent = <<>>
    /\ closed = {}

Min(a, b) == IF a <= b THEN a ELSE b
Max(a, b) == IF a >= b THEN a ELSE b

\* The last n elements of s (all of s when n >= Len(s), none when n <= 0).
LastN(s, n) ==
    IF n <= 0 THEN <<>>
    ELSE IF n >= Len(s) THEN s
    ELSE SubSeq(s, Len(s) - n + 1, Len(s))

\* All sequences over S of length 0..n.
SeqsUpTo(S, n) == UNION {[1..k -> S] : k \in 0..n}

(***************************************************************************)
(* Bounds of the AudioBuffer model.  Times and durations are counted in    *)
(* half seconds so that int(duration * sample_rate) truncates.             *)
(***************************************************************************)
BufSampleRate == 3      \* samples per second
MaxDuration2 == 2       \* max_duration ranges over 0..MaxDuration2 half seconds
MaxChunkLen == 2        \* longest chunk passed to add_chunk
MaxAppended == 4        \* samples appended over a run
MaxTime == 1            \* the clock advances at most this far
MaxAsk2 == 3            \* get_recent_audio(duration), duration in 0..MaxAsk2 half seconds

SampleValues == {0, 1}

\* int(seconds * sample_rate) for a time given in half seconds (Python's int()
\* truncates; the operands are never negative here).
IntSamples(halfSeconds, rate) == (halfSeconds * rate) \div 2

\* AudioBuffer.__init__: self.max_samples = int(max_duration * sample_rate)
max_samples == IntSamples(max_duration, BufSampleRate)

\* deque.append on a deque built with no maxlen: nothing is ever discarded.
DequeAppendUnbounded(d, maxlen, x) == Append(d, x)

\* deque(maxlen=n).append(x): a full deque discards its leftmost item first;
\* a deque of maxlen 0 keeps nothing.
DequeAppend(d, maxlen, x) ==
    IF maxlen = 0 THEN <<>>
    ELSE IF Len(d) >= maxlen THEN Append(Tail(d), x)
    ELSE Append(d, x)

\* The loop of add_chunk over the samples of the chunk, on self.buffer.
RECURSIVE AppendSamples(_, _, _)
AppendSamples(d, maxlen, chunk) ==
    IF chunk = <<>> THEN d
    ELSE AppendSamples(DequeAppend(d, maxlen, Head(chunk)), maxlen, Tail(chunk))

\* while self.timestamps and self.timestamps[0] < cutoff_time: popleft()
RECURSIVE DropOld(_, _)
DropOld(ts, cutoff) ==
    IF ts # <<>> /\ Head(ts) < cutoff THEN DropOld(Tail(ts), cutoff) ELSE ts

\* Python's lst[start:] for any integer start.
SliceFrom(lst, start) ==
    LET n == Len(lst)
        s == IF start < 0 THEN Max(n + start, 0) ELSE Min(start, n)
    IN  SubSeq(lst, s + 1, n)

\* AudioBuffer.get_recent_audio(duration), duration in half seconds.
GetRecentAudio(buf, duration2, rate) ==
    IF buf = <<>> THEN <<>>
    ELSE LET samples_needed == IntSamples(duration2, rate)
         IN  SliceFrom(buf, 0 - samples_needed)

\* AudioBuffer(max_duration, sample_rate): empty deques.
StartBuf(md) ==
    /\ max_duration = md
    /\ buffer = <<>>
    /\ timestamps = <<>>
    /\ now = 0
    /\ appended = <<>>
    /\ last_chunk = <<>>
    /\ recent = [asked |-> -1, held |-> <<>>, out |-> <<>>]

InitBuf ==
    /\ \E md \in 0..MaxDuration2 : StartBuf(md)
    /\ IdleFuse
    /\ IdleDiar
    /\ IdleAlert
    /\ IdleSrv
    /\ IdleMore

\* AudioBuffer.add_chunk(audio_chunk) at a clock reading current_time >= now.
add_chunk(chunk, current_time) ==
    /\ Len(appended) + Len(chunk) <= MaxAppended
    /\ now' = current_time
    /\ buffer' = AppendSamples(buffer, max_samples, chunk)
    /\ timestamps' = DropOld(timestamps \o [i \in 1..Len(chunk) |-> current_time],
                             current_time - max_duration)
    /\ appended' = appended \o chunk
    /\ last_chunk' = chunk
    /\ UNCHANGED <<max_duration, recent>>
    /\ UNCHANGED <<fuseVars, diarVars, alertVars, srvVars, moreVars>>

\* A call of get_recent_audio(duration); the buffer is only read.
get_recent_audio(duration2) ==
    /\ recent' = [asked |-> duration2, held |-> buffer,
                  out |-> GetRecentAudio(buffer, duration2, BufSampleRate)]
    /\ UNCHANGED <<max_duration, buffer, timestamps, now, appended, last_chunk>>
    /\ UNCHANGED <<fuseVars, diarVars, alertVars, srvVars, moreVars>>

BufAddChunk ==
    \E chunk \in SeqsUpTo(SampleValues, MaxChunkLen), t \in 0..MaxTime :
        /\ t >= now
        /\ add_chunk(chunk, t)

BufGetRecent ==
    \E d \in 0..MaxAsk2 : get_recent_audio(d)

NextBuf ==
    \/ BufAddChunk
    \/ BufGetRecent

SpecBuf == InitBuf /\ [][NextBuf]_vars


(***************************************************************************)
(* Exact arithmetic.  The scores of the detectors are Python floats; they  *)
(* are modelled as rationals <<numerator, denominator>> in lowest terms    *)
(* with a positive denominator, so no rounding is introduced.              *)
(***************************************************************************)
Abs(x) == IF x < 0 THEN 0 - x ELSE x

RECURSIVE Gcd(_, _)
Gcd(a, b) == IF b = 0 THEN a ELSE Gcd(b, a % b)

Rat(n, d) ==
    LET g == Gcd(Abs(n), Abs(d))
        sg == IF d < 0 THEN 0 - 1 ELSE 1
    IN  <<(sg * n) \div g, (sg * d) \div g>>

R(n) == <<n, 1>>
RAdd(a, b) == Rat(a[1] * b[2] + b[1] * a[2], a[2] * b[2])
RMul(a, b) ==
    LET g1 == Gcd(Abs(a[1]), b[2])
        g2 == Gcd(Abs(b[1]), a[2])
    IN  Rat((a[1] \div g1) * (b[1] \div g2), (a[2] \div g2) * (b[2] \div g1))
RLt(a, b) == a[1] * b[2] < b[1] * a[2]
RLe(a, b) == a[1] * b[2] <= b[1] * a[2]
RMin(a, b) == IF RLe(a, b) THEN a ELSE b
RMax(a, b) == IF RLe(b, a) THEN a ELSE b

\* min(100.0, max(0.0, x))
Clamp100(x) == RMin(R(100), RMax(R(0), x))

(***************************************************************************)
(* ScamDetector (scam_detector.py).  A text is represented by what the     *)
(* detector reads of it: how many patterns of each list re.search finds.   *)
(***************************************************************************)
\* len(self.scam_patterns[language]); an unknown language falls back to "en".
NumBuiltin(language) ==
    CASE language = "en" -> 20
      [] language = "es" -> 14
      [] language = "fr" -> 14
      [] language = "de" -> 10
      [] language = "it" -> 10
      [] OTHER -> 20

NumPressure == 14       \* len(self.pressure_patterns)
NumIntense == 4         \* of them, those containing immediately / urgent / emergency
NumPersonalInfo == 12   \* len(self.personal_info_patterns)

\* ScamDetector._detect_scam_patterns: text.scam built-in patterns match, and
\* the database rows text.db (each with its weight and whether it matches).
DetectScamPatterns(text) ==
    LET hits == {i \in 1..Len(text.db) : text.db[i].hit}
        DbWeight[S \in SUBSET (1..Len(text.db))] ==
            IF S = {} THEN 0
            ELSE LET i == CHOOSE j \in S : TRUE
                 IN  text.db[i].weight + DbWeight[S \ {i}]
        matches == text.scam + Cardinality(hits)
        weighted_score == text.scam + DbWeight[hits]
        total_patterns == NumBuiltin(text.language) + Len(text.db)
    IN  IF total_patterns = 0 THEN R(0)
        ELSE LET base_score == Rat(weighted_score * 100, total_patterns)
             IN  RMin(R(100), RMul(base_score, Rat(5 + matches, 5)))

\* ScamDetector._detect_pressure_tactics: text.pressure plain patterns and
\* text.intense high-pressure patterns match.
DetectPressureTactics(text) ==
    LET matches == text.pressure + text.intense
        intensity_multiplier == Rat(10 + 3 * text.intense, 10)
        base_score == Rat(matches * 100, NumPressure)
    IN  RMin(R(100), RMul(RMul(base_score, intensity_multiplier), Rat(5, 2)))

\* ScamDetector._detect_personal_info_requests
DetectPersonalInfoRequests(text) ==
    RMin(R(100), Rat(text.personal * 100 * 4, NumPersonalInfo))

\* ScamDetector._analyze_context: text.context is the set of the six flow
\* patterns that match, in source order.
ContextDelta(i) ==
    CASE i = 1 -> 20
      [] i = 2 -> 30
      [] i = 3 -> 25
      [] i = 4 -> 35
      [] i = 5 -> 0 - 20
      [] i = 6 -> 0 - 15

AnalyzeContext(text) ==
    LET Sum[S \in SUBSET (1..6)] ==
            IF S = {} THEN 0
            ELSE LET i == CHOOSE j \in S : TRUE IN ContextDelta(i) + Sum[S \ {i}]
    IN  Clamp100(R(Sum[text.context]))

\* ScamDetector._openai_analysis: 0 without a key or on any failure, else the
\* number the reply carries, clamped.
OpenaiAnalysis(openai, reply) ==
    IF ~openai THEN R(0)
    ELSE IF reply < 0 THEN R(0)
    ELSE Clamp100(R(reply))

\* The weight table of _combine_scores, in hundredths.
Weights(openai) ==
    [pattern |-> 25 + (IF openai THEN 0 ELSE 5),
     pressure |-> 20 + (IF openai THEN 0 ELSE 5),
     personal_info |-> 25 + (IF openai THEN 0 ELSE 5),
     ml |-> 10,
     llm |-> IF openai THEN 15 ELSE 0,
     context |-> 15]

ScoreKeys == {"pattern", "pressure", "personal_info", "ml", "llm", "context"}

\* A variant of _combine_scores that returns the amplified sum as it is.
CombineScoresUnclamped(scores, openai) ==
    LET w == Weights(openai)
        combined ==
            RAdd(RMul(scores.pattern, Rat(w.pattern, 100)),
            RAdd(RMul(scores.pressure, Rat(w.pressure, 100)),
            RAdd(RMul(scores.personal_info, Rat(w.personal_info, 100)),
            RAdd(RMul(scores.ml, Rat(w.ml, 100)),
            RAdd(RMul(scores.llm, Rat(w.llm, 100)),
                 RMul(scores.context, Rat(w.context, 100)))))))
        high_scores == {k \in ScoreKeys : RLt(R(70), scores[k])}
    IN  IF Cardinality(high_scores) >= 2 THEN RMul(combined, Rat(6, 5)) ELSE combined

\* ScamDetector._combine_scores
CombineScores(scores, openai) ==
    Clamp100(CombineScoresUnclamped(scores, openai))

\* ScamDetector._get_detailed_indicators: the indicator types, in the order
\* scam patterns, pressure tactics, personal-info requests, cut to ten.
\* Database patterns are not listed.
DetailedIndicators(text) ==
    LET all == [i \in 1..text.scam |-> "scam_pattern"]
               \o [i \in 1..(text.pressure + text.intense) |-> "pressure_tactic"]
               \o [i \in 1..text.personal |-> "personal_info_request"]
    IN  SubSeq(all, 1, Min(10, Len(all)))

\* ScamDetector._calculate_detection_confidence
DetectionConfidence(risk_score, indicators, openai) ==
    LET byScore == IF RLt(R(80), risk_score) THEN 30
                   ELSE IF RLt(R(60), risk_score) THEN 20
                   ELSE IF RLt(R(40), risk_score) THEN 10
                   ELSE 0
        indicator_bonus == Min(20, Len(indicators) * 3)
    IN  Min(100, 50 + byScore + indicator_bonus + (IF openai THEN 10 ELSE 0))

\* ScamDetector._empty_result
EmptyScamResult ==
    [risk_score |-> R(0), indicators |-> <<>>, confidence |-> 0,
     scores |-> [pattern |-> R(0), pressure |-> R(0), personal_info |-> R(0),
                 ml |-> R(0), llm |-> R(0), context |-> R(0)]]

\* ScamDetector.analyze_text.  text.ml is the classifier's score (0 when the
\* classifier is missing or fails), text.llm the number in the LLM's reply
\* (negative: the call failed or the reply carried no number).
AnalyzeText(text, openai) ==
    IF text.blank THEN EmptyScamResult
    ELSE LET scores == [pattern |-> DetectScamPatterns(text),
                        pressure |-> DetectPressureTactics(text),
                        personal_info |-> DetectPersonalInfoRequests(text),
                        ml |-> R(text.ml),
                        llm |-> OpenaiAnalysis(openai, text.llm),
                        context |-> AnalyzeContext(text)]
             combined_score == CombineScores(scores, openai)
             indicators == DetailedIndicators(text)
         IN  [risk_score |-> combined_score, indicators |-> indicators,
              confidence |-> DetectionConfidence(combined_score, indicators, openai),
              scores |-> scores]

(***************************************************************************)
(* VoiceAnalyzer.detect_spoofing (voice_analyzer.py), as far as the fusion *)
(* reads it: the model's score (0 without a model) and the traditional     *)
(* score in hundredths, and the number of non-zero features.               *)
(***************************************************************************)
SpoofingThreshold100 == 50      \* settings.VOICE_SPOOFING_THRESHOLD = 0.5

\* VoiceAnalyzer._calculate_confidence, in hundredths
VoiceConfidence(combined100, features, hasModel) ==
    LET extreme == IF RLt(R(80), combined100) \/ RLt(combined100, R(20)) THEN 30
                   ELSE IF RLt(R(60), combined100) \/ RLt(combined100, R(40)) THEN 20
                   ELSE 0
        feature_bonus == IF features > 0 THEN Min(20, features * 2) ELSE 0
    IN  Min(100, 50 + extreme + feature_bonus + (IF hasModel THEN 10 ELSE 0))

\* VoiceAnalyzer._empty_result
EmptyVoiceResult == [is_spoofed |-> FALSE, spoofing_score |-> R(0), confidence |-> 0]

DetectSpoofing(voice) ==
    IF voice.failed THEN EmptyVoiceResult
    ELSE LET combined100 == RAdd(RMul(R(voice.model), Rat(7, 10)),
                                 RMul(R(voice.traditional), Rat(3, 10)))
         IN  [is_spoofed |-> RLt(R(SpoofingThreshold100), combined100),
              spoofing_score |-> combined100,
              confidence |-> VoiceConfidence(combined100, voice.features, voice.hasModel)]

(***************************************************************************)
(* Risk fusion, level and alert category (main.py, tts_alerts.py)          *)
(***************************************************************************)
\* A variant of calculate_risk_score without the final clamp.
RiskScoreUnclamped(scam_result, voice_result) ==
    LET scam_score == scam_result.risk_score
        voice_score == voice_result.spoofing_score
        base == RAdd(RMul(scam_score, Rat(7, 10)), RMul(voice_score, Rat(3, 10)))
        base_score == IF RLt(R(60), scam_score) /\ RLt(R(60), voice_score)
                      THEN RMul(base, Rat(6, 5)) ELSE base
        avg_confidence == Rat(scam_result.confidence + voice_result.confidence, 200)
    IN  RMul(base_score, RAdd(Rat(7, 10), RMul(Rat(3, 10), avg_confidence)))

\* calculate_risk_score (main.py)
CalculateRiskScore(scam_result, voice_result) ==
    Clamp100(RiskScoreUnclamped(scam_result, voice_result))

\* get_risk_level (main.py)
GetRiskLevel(score) ==
    IF RLe(R(70), score) THEN "scam"
    ELSE IF RLe(R(40), score) THEN "suspicious"
    ELSE "safe"

\* "voice" in ind_type, over the indicator types that occur
ContainsVoice(t) == t \in {"voice_spoofing", "synthetic_voice"}

\* TTSAlerts._determine_alert_type on the list of indicator types
DetermineAlertType(risk_score, indicators) ==
    LET indicator_types == {indicators[i] : i \in 1..Len(indicators)}
    IN  IF "personal_info_request" \in indicator_types THEN "personal_info"
        ELSE IF "pressure_tactic" \in indicator_types THEN "pressure_tactics"
        ELSE IF \E t \in indicator_types : ContainsVoice(t) THEN "voice_spoofing"
        ELSE IF Len(indicators) >= 3 THEN "scam_patterns"
        ELSE IF RLe(R(80), risk_score) THEN "high_risk"
        ELSE "medium_risk"

\* process_audio_chunk, step 7: a TTS alert is requested
AlertRequested(risk_score) == RLt(R(70), risk_score)


(***************************************************************************)
(* SpecFuse: one text and one voice measurement are analysed and fused,    *)
(* then analysed and fused a second time.                                  *)
(***************************************************************************)
MaxMatch == 2           \* pattern lists match 0..MaxMatch patterns, or all
MaxDbRows == 1          \* rows db_manager.get_scam_patterns returns
MaxFeatures == 10       \* non-zero features the voice analyzer extracts

DbWeights == {5}       \* ScamPattern.weight of the rows (default 1.0)
Percents == {0, 100}    \* classifier / model outputs, in hundredths
LlmReplies == {0 - 1, 0, 100}
Languages == {"en"}
ContextSets == {{}, {5, 6}, {1, 2, 3, 4}}

Counts(all) == {n \in 0..all : n <= MaxMatch \/ n = all}

BlankText ==
    [blank |-> TRUE, language |-> "en", scam |-> 0, db |-> <<>>, pressure |-> 0,
     intense |-> 0, personal |-> 0, context |-> {}, ml |-> 0, llm |-> 0 - 1]

\* The texts analysed: a blank one, and every combination of match counts a
\* text can produce.  Three built-in "en" patterns imply a match in another
\* list (click.*link.*immediately, urgent.*action.*required => a high-pressure
\* pattern; provide.*ssn => ssn), so a text matching all of them matches there.
\* The LLM is asked only when use_openai is set.
Texts(openai) ==
    {BlankText} \cup
    {t \in [blank : {FALSE}, language : Languages, scam : 0..20,
            db : SeqsUpTo([weight : DbWeights, hit : BOOLEAN], MaxDbRows),
            pressure : {0, NumPressure - NumIntense}, intense : Counts(NumIntense),
            personal : Counts(NumPersonalInfo), context : ContextSets,
            ml : Percents, llm : LlmReplies] :
        /\ t.scam \in Counts(NumBuiltin(t.language))
        /\ (t.language = "en" /\ t.scam = 20) => (t.intense >= 2 /\ t.personal >= 1)
        /\ ~openai => t.llm = 0 - 1}

\* The voice measurements: a failed analysis, and with or without a model a
\* low and a high traditional score.
Voices ==
    {[failed |-> TRUE, hasModel |-> FALSE, model |-> 0, traditional |-> 0, features |-> 0]}
    \cup
    {v \in [failed : {FALSE}, hasModel : BOOLEAN, model : Percents,
            traditional : Percents, features : {MaxFeatures}] :
        /\ ~v.hasModel => v.model = 0
        /\ v.hasModel => v.model = v.traditional}

NoOutcome == [done |-> FALSE]

\* Steps 3-7 of process_audio_chunk on one text and one voice measurement.
Outcome(text, voice, openai) ==
    LET scam_result == AnalyzeText(text, openai)
        voice_result == DetectSpoofing(voice)
        risk_score == CalculateRiskScore(scam_result, voice_result)
    IN  [done |-> TRUE, scam |-> scam_result, voice |-> voice_result,
         risk_score |-> risk_score, risk_level |-> GetRiskLevel(risk_score),
         alert |-> AlertRequested(risk_score),
         alert_type |-> DetermineAlertType(risk_score, scam_result.indicators)]

InitFuse ==
    /\ use_openai \in BOOLEAN
    /\ f_text \in Texts(use_openai)
    /\ f_voice \in Voices
    /\ f_out = NoOutcome
    /\ f_again = NoOutcome
    /\ IdleBuf
    /\ IdleDiar
    /\ IdleAlert
    /\ IdleSrv
    /\ IdleMore

FuseAnalyze ==
    /\ ~f_out.done
    /\ f_out' = Outcome(f_text, f_voice, use_openai)
    /\ UNCHANGED <<use_openai, f_text, f_voice, f_again>>
    /\ UNCHANGED <<bufVars, diarVars, alertVars, srvVars, moreVars>>

FuseAnalyzeAgain ==
    /\ f_out.done
    /\ ~f_again.done
    /\ f_again' = Outcome(f_text, f_voice, use_openai)
    /\ UNCHANGED <<use_openai, f_text, f_voice, f_out>>
    /\ UNCHANGED <<bufVars, diarVars, alertVars, srvVars, moreVars>>

NextFuse ==
    \/ FuseAnalyze
    \/ FuseAnalyzeAgain

SpecFuse == InitFuse /\ [][NextFuse]_vars


(***************************************************************************)
(* DiarizationService (services/diarization_service.py).  An embedding is  *)
(* a vector with rational components, written [v |-> <<x, y>>, k |-> n]    *)
(* for <<x, y>> / 5^n, so that 0.8 * old + 0.2 * new is exact.             *)
(***************************************************************************)
MaxAssign == 2          \* segment embeddings assigned over a run
MaxProbe == 2           \* calls that pass a stored centroid over a run
MaxCoord == 1           \* embedder outputs have coordinates in -MaxCoord..MaxCoord

RECURSIVE Pow5(_)
Pow5(n) == IF n = 0 THEN 1 ELSE 5 * Pow5(n - 1)

Dot(a, b) == a[1] * b[1] + a[2] * b[2]

\* The same vector with the smallest exponent.
RECURSIVE Reduce(_)
Reduce(e) ==
    IF e.k > 0 /\ e.v[1] % 5 = 0 /\ e.v[2] % 5 = 0
    THEN Reduce([v |-> <<e.v[1] \div 5, e.v[2] \div 5>>, k |-> e.k - 1])
    ELSE e

\* The vectors the speaker encoder returns (it never returns the zero vector).
Embeddings ==
    {[v |-> <<x, y>>, k |-> 0] : x \in (0 - MaxCoord)..MaxCoord, y \in (0 - MaxCoord)..MaxCoord}
    \ {[v |-> <<0, 0>>, k |-> 0]}

\* A cosine similarity dot / sqrt(nn) is kept as the pair <<dot, nn>>, nn > 0;
\* torch's cosine_similarity is 0 when a norm is 0.
CosineSimilarity(a, b) ==
    LET nn == Dot(a.v, a.v) * Dot(b.v, b.v)
    IN  IF nn = 0 THEN <<0, 1>>
        ELSE LET d == Dot(a.v, b.v)
                 IN  <<d, nn>>

\* s > t for two similarities: the squares dot^2 / nn are compared as
\* fractions in lowest terms, by sign.
SimGreater(s, t) ==
    LET sq(x) == Rat(x[1] * x[1], x[2])
    IN  IF s[1] >= 0 /\ t[1] < 0 THEN TRUE
        ELSE IF s[1] < 0 /\ t[1] >= 0 THEN FALSE
        ELSE IF s[1] >= 0 THEN RLt(sq(t), sq(s))
        ELSE RLt(sq(s), sq(t))

SimilarityThreshold == <<1, 16>>    \* similarity_threshold = 0.25
MinusOne == <<0 - 1, 1>>            \* max_similarity = -1

\* The loop of assign_speaker with >= for >: the last entry with the greatest
\* similarity wins.
RECURSIVE BestMatchLast(_, _, _, _)
BestMatchLast(reg, embedding, i, best) ==
    IF i > Len(reg) THEN best
    ELSE LET similarity == CosineSimilarity(embedding, reg[i].emb)
         IN  IF ~SimGreater(best.max_similarity, similarity)
             THEN BestMatchLast(reg, embedding, i + 1,
                                [max_similarity |-> similarity, best_match_id |-> reg[i].id])
             ELSE BestMatchLast(reg, embedding, i + 1, best)

\* The loop of assign_speaker over self.speaker_embeddings.items(): the first
\* entry with the greatest similarity wins (0 stands for best_match_id None).
RECURSIVE BestMatch(_, _, _, _)
BestMatch(reg, embedding, i, best) ==
    IF i > Len(reg) THEN best
    ELSE LET similarity == CosineSimilarity(embedding, reg[i].emb)
         IN  IF SimGreater(similarity, best.max_similarity)
             THEN BestMatch(reg, embedding, i + 1,
                            [max_similarity |-> similarity, best_match_id |-> reg[i].id])
             ELSE BestMatch(reg, embedding, i + 1, best)

\* The update of the centroid with the weights exchanged,
\* old * 0.2 + embedding * 0.8.
WeightedAverageSwapped(old, new) ==
    LET K == Max(old.k, new.k)
        o == Pow5(K - old.k)
        n == Pow5(K - new.k)
    IN  Reduce([v |-> <<o * old.v[1] + 4 * n * new.v[1], o * old.v[2] + 4 * n * new.v[2]>>,
                k |-> K + 1])

\* self.speaker_embeddings[id] * 0.8 + embedding * 0.2
WeightedAverage(old, new) ==
    LET K == Max(old.k, new.k)
        o == Pow5(K - old.k)
        n == Pow5(K - new.k)
    IN  Reduce([v |-> <<4 * o * old.v[1] + n * new.v[1], 4 * o * old.v[2] + n * new.v[2]>>,
                k |-> K + 1])

\* max_similarity > similarity_threshold, with the comparison reversed.
IsKnownSpeakerReversed(max_similarity, threshold) == SimGreater(threshold, max_similarity)

\* max_similarity > similarity_threshold
IsKnownSpeaker(max_similarity, threshold) == SimGreater(max_similarity, threshold)

\* DiarizationService.assign_speaker: the id returned, the registry and the
\* counter after the call.
AssignSpeaker(reg, counter, embedding) ==
    LET fresh == [id |-> counter + 1, reg |-> Append(reg, [id |-> counter + 1, emb |-> embedding]),
                  counter |-> counter + 1, max_similarity |-> MinusOne]
    IN  IF reg = <<>> THEN fresh
        ELSE LET best == BestMatch(reg, embedding, 1,
                                   [max_similarity |-> MinusOne, best_match_id |-> 0])
             IN  IF IsKnownSpeaker(best.max_similarity, SimilarityThreshold)
                 THEN [id |-> best.best_match_id,
                       reg |-> [i \in 1..Len(reg) |->
                                  IF reg[i].id = best.best_match_id
                                  THEN [id |-> reg[i].id,
                                        emb |-> WeightedAverage(reg[i].emb, embedding)]
                                  ELSE reg[i]],
                       counter |-> counter,
                       max_similarity |-> best.max_similarity]
                 ELSE [fresh EXCEPT !.max_similarity = best.max_similarity]

NoCall == [probe |-> 0, repeat |-> FALSE, id |-> 0, created |-> FALSE,
           max_similarity |-> MinusOne, before |-> <<>>]

\* DiarizationService.__init__
InitDiar ==
    /\ speaker_embeddings = <<>>
    /\ speaker_id_counter = 0
    /\ d_calls = 0
    /\ d_probes = 0
    /\ d_last = NoCall
    /\ IdleBuf
    /\ IdleFuse
    /\ IdleAlert
    /\ IdleSrv
    /\ IdleMore

\* One call of assign_speaker(embedding); probe names the speaker whose
\* current centroid the caller passes (0: an embedding of a new segment).
assign_speaker(embedding, probe) ==
    LET r == AssignSpeaker(speaker_embeddings, speaker_id_counter, embedding)
    IN  /\ IF probe = 0
           THEN d_calls < MaxAssign /\ d_calls' = d_calls + 1 /\ d_probes' = d_probes
           ELSE d_probes < MaxProbe /\ d_probes' = d_probes + 1 /\ d_calls' = d_calls
        /\ speaker_embeddings' = r.reg
        /\ speaker_id_counter' = r.counter
        /\ d_last' = [probe |-> probe,
                      repeat |-> probe # 0 /\ d_last.probe = probe,
                      id |-> r.id,
                      created |-> Len(r.reg) > Len(speaker_embeddings),
                      max_similarity |-> r.max_similarity,
                      before |-> speaker_embeddings]
        /\ UNCHANGED <<bufVars, fuseVars, alertVars, srvVars, moreVars>>

DiarAssign ==
    \E e \in Embeddings : assign_speaker(e, 0)

DiarAssignCentroid ==
    \E i \in 1..Len(speaker_embeddings) :
        assign_speaker(speaker_embeddings[i].emb, speaker_embeddings[i].id)

\* DiarizationService.reset_speakers
reset_speakers ==
    /\ speaker_embeddings # <<>>
    /\ speaker_embeddings' = <<>>
    /\ speaker_id_counter' = 0
    /\ d_last' = NoCall
    /\ UNCHANGED <<d_calls, d_probes, bufVars, fuseVars, alertVars, srvVars, moreVars>>

NextDiar ==
    \/ DiarAssign
    \/ DiarAssignCentroid
    \/ reset_speakers

SpecDiar == InitDiar /\ [][NextDiar]_vars

(***************************************************************************)
(* SpecSpans: DiarizationService.diarize_segments on the spans VAD found,  *)
(* one assign_speaker call per span with audio.                            *)
(***************************************************************************)
MaxSpans == 3           \* spans diarized over a run

\* One turn of the loop of diarize_segments: the embedding of the span's
\* audio, then assign_speaker.
diarize_segment ==
    /\ d_calls < MaxSpans
    /\ \E embedding \in Embeddings :
         LET r == AssignSpeaker(speaker_embeddings, speaker_id_counter, embedding)
         IN  /\ speaker_embeddings' = r.reg
             /\ speaker_id_counter' = r.counter
             /\ d_last' = [probe |-> 0, repeat |-> FALSE, id |-> r.id,
                           created |-> Len(r.reg) > Len(speaker_embeddings),
                           max_similarity |-> r.max_similarity,
                           before |-> speaker_embeddings,
                           embedding |-> embedding,
                           counter |-> speaker_id_counter]
    /\ d_calls' = d_calls + 1
    /\ UNCHANGED d_probes
    /\ UNCHANGED <<bufVars, fuseVars, alertVars, srvVars, moreVars>>

NextSpans ==
    \/ diarize_segment

SpecSpans == InitDiar /\ [][NextSpans]_vars


(***************************************************************************)
(* Segment analysis and alerts: WhisperService.transcribe_audio,           *)
(* AntiSpoofingService.detect_synthetic_voice, OpenAIService               *)
(* .detect_scam_intent and AlertController.generate_and_send_alert.        *)
(* Confidences are in thousandths.                                         *)
(***************************************************************************)
MaxSegments == 2        \* AnalysisResult objects built over a run

\* str.strip() on the three kinds of text the model distinguishes.
Strip(text) == IF text = "spaces" THEN "" ELSE text

\* WhisperService.transcribe_audio: "" when the model is not loaded or the
\* transcription raises, else the text the model returns.
TranscribeAudio(seg) ==
    IF ~seg.model_loaded \/ seg.whisper_raises
    THEN [text |-> "", language |-> "en"]
    ELSE [text |-> seg.said, language |-> seg.language]

\* AntiSpoofingService.detect_synthetic_voice.  energy_std is in units of
\* 0.00001, zero_crossings in thousandths, rand in hundredths.
DetectSyntheticVoice(seg) ==
    IF seg.short THEN [is_synthetic |-> FALSE, confidence |-> 500]
    ELSE LET low == seg.energy_std < 10 /\ seg.many_energies
             extreme == seg.zero_crossings > 200 \/ seg.zero_crossings < 10
             is1 == low
             c1 == IF low THEN Min(900, 700 + 10 * (10 - seg.energy_std)) ELSE 500
             is2 == is1 \/ extreme
             c2 == IF extreme /\ ~is1
                   THEN Min(900, 600 + 2 * Abs(seg.zero_crossings - 100))
                   ELSE c1
         IN  IF seg.flip
             THEN [is_synthetic |-> ~is2, confidence |-> 2 * seg.rand + 700]
             ELSE [is_synthetic |-> is2, confidence |-> c2]

ValidLabels == {"Safe", "Suspicious", "Scam", "Error"}

\* OpenAIService.detect_scam_intent; invoked tells whether the chat
\* completion was called.
DetectScamIntent(text, has_key, reply) ==
    IF Strip(text) = ""
    THEN [label |-> "Safe", rationale |-> "No speech detected or transcribed.",
          invoked |-> FALSE]
    ELSE IF ~has_key
    THEN [label |-> "Error", rationale |-> "OPENAI_API_KEY not set.", invoked |-> FALSE]
    ELSE IF reply = "raise"
    THEN [label |-> "Error", rationale |-> "LLM processing failed", invoked |-> TRUE]
    ELSE IF reply = "badjson"
    THEN [label |-> "Error", rationale |-> "Invalid JSON", invoked |-> TRUE]
    ELSE IF reply \notin ValidLabels
    THEN [label |-> "Error", rationale |-> "LLM returned invalid label", invoked |-> TRUE]
    ELSE [label |-> reply, rationale |-> "from the reply", invoked |-> TRUE]

SyntheticConfidence == 800      \* confidence > 0.8

\* The alert text AlertController.generate_and_send_alert builds ("" = none).
AlertText(analysis_result) ==
    LET base == IF analysis_result.scam_detection.label = "Scam" THEN "scam"
                ELSE IF analysis_result.scam_detection.label = "Suspicious" THEN "suspicious"
                ELSE ""
    IN  IF /\ analysis_result.anti_spoofing.is_synthetic
           /\ analysis_result.anti_spoofing.confidence > SyntheticConfidence
        THEN (IF base # "" THEN base \o "+synthetic" ELSE "synthetic")
        ELSE base

\* AlertController.generate_and_send_alert: with a text, the speech synthesis
\* is requested; ElevenLabsService has no generate_tts_audio, so that call
\* raises.  Without a text the method returns None.
GenerateAndSendAlert(analysis_result) ==
    LET alert_text == AlertText(analysis_result)
    IN  [alert_text |-> alert_text,
         requested |-> alert_text # "",
         outcome |-> IF alert_text # "" THEN "raises" ELSE "None"]

Said == {"", "spaces", "words"}

Replies == {"Safe", "Suspicious", "Scam", "Error", "Other", "badjson", "raise"}

\* The audio of a segment, by the features the services read.
Segments ==
    {[model_loaded |-> ml, whisper_raises |-> FALSE, said |-> sd, language |-> "en",
      short |-> sh, energy_std |-> es, many_energies |-> TRUE,
      zero_crossings |-> z, flip |-> fl, rand |-> 80] :
        ml \in BOOLEAN, sd \in Said, sh \in BOOLEAN, es \in {0, 20},
        z \in {0, 100, 300}, fl \in BOOLEAN}

InitAlert ==
    /\ a_results = <<>>
    /\ a_alerts = <<>>
    /\ IdleBuf
    /\ IdleFuse
    /\ IdleDiar
    /\ IdleSrv
    /\ IdleMore

\* One segment analysed: transcription and spoofing detection, then the
\* scam-intent detection on the transcript, then the AnalysisResult.
AlertAnalyze ==
    /\ Len(a_results) < MaxSegments
    /\ \E seg \in Segments, has_key \in BOOLEAN, reply \in Replies :
         LET transcription == TranscribeAudio(seg)
             scam == DetectScamIntent(transcription.text, has_key, reply)
         IN  a_results' = Append(a_results,
                 [transcription |-> transcription,
                  anti_spoofing |-> DetectSyntheticVoice(seg),
                  scam_detection |-> scam,
                  alert_triggered |-> FALSE])
    /\ UNCHANGED <<a_alerts, bufVars, fuseVars, diarVars, srvVars, moreVars>>

\* generate_and_send_alert for the oldest result not yet passed to it.
AlertGenerate ==
    /\ Len(a_alerts) < Len(a_results)
    /\ a_alerts' = Append(a_alerts, GenerateAndSendAlert(a_results[Len(a_alerts) + 1]))
    /\ UNCHANGED <<a_results, bufVars, fuseVars, diarVars, srvVars, moreVars>>

NextAlert ==
    \/ AlertAnalyze
    \/ AlertGenerate

SpecAlert == InitAlert /\ [][NextAlert]_vars


(***************************************************************************)
(* Spec: the WebSocket server of main.py.  Every websocket_endpoint call   *)
(* is a coroutine on one event loop: code between two awaits that suspend  *)
(* (accept, receive_text, the OpenAI request, send_text) runs atomically.  *)
(***************************************************************************)
MaxChunks == 2          \* messages received over a run
SrvMaxSamples == 2      \* samples a client buffer holds (MAX_AUDIO_BUFFER * SAMPLE_RATE)

Clients == {"a", "b"}    \* client ids of the /ws/{client_id} path
Sockets == {1, 2}        \* the websockets accepted over a run, in this order

\* dict operations
Put(d, k, v) == [x \in DOMAIN d \cup {k} |-> IF x = k THEN v ELSE d[x]]
Del(d, k) == [x \in DOMAIN d \ {k} |-> d[x]]

\* The manager's and the audio processor's state as one value.
Server ==
    [active_connections |-> active_connections, client_sessions |-> client_sessions,
     client_buffers |-> client_buffers, connection_count |-> connection_count,
     saved |-> saved, closed |-> closed]

\* Two transcripts and two voices a speech chunk can carry.
SrvText(preset, openai) ==
    IF preset = "high"
    THEN [blank |-> FALSE, language |-> "en", scam |-> 20, db |-> <<>>,
          pressure |-> NumPressure - NumIntense, intense |-> NumIntense,
          personal |-> NumPersonalInfo, context |-> {1, 2, 3, 4}, ml |-> 100,
          llm |-> IF openai THEN 100 ELSE 0 - 1]
    ELSE [blank |-> FALSE, language |-> "en", scam |-> 1, db |-> <<>>, pressure |-> 0,
          intense |-> 0, personal |-> 0, context |-> {}, ml |-> 0,
          llm |-> IF openai THEN 0 ELSE 0 - 1]

SrvVoice(preset) ==
    IF preset = "high"
    THEN [failed |-> FALSE, hasModel |-> TRUE, model |-> 100, traditional |-> 100,
          features |-> MaxFeatures]
    ELSE [failed |-> FALSE, hasModel |-> FALSE, model |-> 0, traditional |-> 0,
          features |-> MaxFeatures]

\* process_audio_chunk, steps 3-5, for every preset
SrvRisk ==
    [preset \in {"low", "high"}, openai \in BOOLEAN |->
        CalculateRiskScore(AnalyzeText(SrvText(preset, openai), openai),
                           DetectSpoofing(SrvVoice(preset)))]

\* ConnectionManager.connect, after websocket.accept() returned
ConnectS(S, k, c) ==
    [S EXCEPT !.active_connections = Put(@, c, k),
              !.client_sessions = Put(@, c, [owner |-> k, transcript_segments |-> <<>>,
                                             risk_scores |-> <<>>, total_chunks |-> 0]),
              !.connection_count = @ + 1,
              !.closed = @ \ {c}]

\* ConnectionManager._save_session_data: the record is handed to
\* db_manager.save_call_record when the session saw a chunk; a failure of
\* the database (stored FALSE) is logged and swallowed.
SaveSessionData(S, c, db_ok) ==
    LET session == S.client_sessions[c]
    IN  IF session.total_chunks > 0
        THEN [S EXCEPT !.saved = Append(@, [client_id |-> c, owner |-> session.owner,
                                            results |-> Len(session.transcript_segments),
                                            stored |-> db_ok])]
        ELSE S

\* A disconnect of c would not reach db_manager.save_call_record.
SavesNothing(S, c) ==
    \/ c \notin DOMAIN S.active_connections
    \/ c \notin DOMAIN S.client_sessions
    \/ S.client_sessions[c].total_chunks = 0

\* ConnectionManager.disconnect
DisconnectS(S, c, db_ok) ==
    IF c \notin DOMAIN S.active_connections THEN S
    ELSE LET S1 == [S EXCEPT !.active_connections = Del(@, c)]
             S2 == IF c \in DOMAIN S1.client_sessions
                   THEN [SaveSessionData(S1, c, db_ok) EXCEPT !.client_sessions = Del(@, c)]
                   ELSE S1
         IN  [S2 EXCEPT !.client_buffers = Del(@, c),
                        !.connection_count = Max(0, @ - 1),
                        !.closed = @ \cup {c}]

\* AudioProcessor.get_or_create_buffer followed by buffer.add_chunk; every
\* chunk is one sample, labelled with the websocket it arrived on.
BufferChunk(S, c, k) ==
    LET buf == IF c \in DOMAIN S.client_buffers THEN S.client_buffers[c] ELSE <<>>
    IN  [S EXCEPT !.client_buffers = Put(@, c, AppendSamples(buf, SrvMaxSamples, <<k>>))]

\* process_audio_chunk, "Update session": total_chunks += 1
CountChunk(S, c) ==
    IF c \in DOMAIN S.client_sessions
    THEN [S EXCEPT !.client_sessions[c].total_chunks = @ + 1]
    ELSE S

\* process_audio_chunk, "Update session data": the result is appended to the
\* session found under the client id.
AppendResult(S, j) ==
    IF j.client_id \in DOMAIN S.client_sessions
    THEN [S EXCEPT !.client_sessions[j.client_id].transcript_segments =
                       Append(@, [conn |-> j.conn, seq |-> j.seq, risk_score |-> j.risk_score]),
                   !.client_sessions[j.client_id].risk_scores = Append(@, j.risk_score)]
    ELSE S

\* send_personal_message up to the await on send_text: the websocket found
\* under the client id (0: none, nothing is sent).
SendTarget(S, c) ==
    IF c \in DOMAIN S.active_connections THEN S.active_connections[c] ELSE 0

InstallServer(S) ==
    /\ active_connections' = S.active_connections
    /\ client_sessions' = S.client_sessions
    /\ client_buffers' = S.client_buffers
    /\ connection_count' = S.connection_count
    /\ saved' = S.saved
    /\ closed' = S.closed

\* The number of messages received on websockets 1..n.
RECURSIVE Received(_)
Received(n) == IF n = 0 THEN 0 ELSE conns[n].received + Received(n - 1)

\* The websocket_endpoint of websocket k awaits receive_text: with every
\* message handled inline, that is when no call of k is suspended.
CanReceive(k) == \A j \in jobs : j.conn # k

\* process_audio_chunk step 7 for job j, after the result was sent (or not):
\* the job that awaits the send of the alert, or none.
AlertJobs(S, j) ==
    IF AlertRequested(j.risk_score) /\ j.tts_ok /\ SendTarget(S, j.client_id) # 0
    THEN {[j EXCEPT !.pc = "last_send", !.type = "audio_alert",
                    !.target = SendTarget(S, j.client_id)]}
    ELSE {}

\* process_audio_chunk from the appended result to the next await.
ResultJobs(S, j) ==
    IF SendTarget(S, j.client_id) # 0
    THEN {[j EXCEPT !.pc = "send", !.type = "analysis_result",
                    !.target = SendTarget(S, j.client_id)]}
    ELSE AlertJobs(S, j)

InitSrv ==
    /\ active_connections = <<>>
    /\ client_sessions = <<>>
    /\ client_buffers = <<>>
    /\ connection_count = 0
    /\ saved = <<>>
    /\ conns = <<>>
    /\ jobs = {}
    /\ sent = <<>>
    /\ closed = {}
    /\ use_openai \in BOOLEAN
    /\ f_text = <<>>
    /\ f_voice = <<>>
    /\ f_out = <<>>
    /\ f_again = <<>>
    /\ IdleBuf
    /\ IdleDiar
    /\ IdleAlert
    /\ IdleMore

SrvOthersUnchanged == UNCHANGED <<bufVars, fuseVars, diarVars, alertVars, moreVars>>

\* websocket_endpoint starts for a new websocket: manager.connect
Connect ==
    /\ Len(conns) + 1 \in Sockets
    /\ \E c \in Clients :
         /\ InstallServer(ConnectS(Server, Len(conns) + 1, c))
         /\ conns' = Append(conns, [client_id |-> c, open |-> TRUE, received |-> 0,
                                    chunks |-> 0, released |-> FALSE])
         /\ sent' = Append(sent, <<>>)
    /\ UNCHANGED jobs
    /\ SrvOthersUnchanged

\* websocket k delivers an audio_chunk message: process_audio_chunk runs to
\* its first suspending await or to its return.
\*   kind "empty"  : empty or undecodable audio (process_vad returns early)
\*   kind "quiet"  : no speech activity, or speech with an empty transcript
\*   kind "speech" : a transcript, analysed as preset says
process_audio_chunk(k, kind, preset, tts_ok) ==
        LET c == conns[k].client_id
            S1 == CountChunk(Server, c)
            S2 == IF kind = "empty" THEN S1 ELSE BufferChunk(S1, c, k)
            j == [conn |-> k, seq |-> Received(Len(conns)) + 1, client_id |-> c,
                  pc |-> "llm", type |-> "analysis_result", preset |-> preset,
                  risk_score |-> SrvRisk[preset, use_openai], tts_ok |-> tts_ok,
                  target |-> 0]
            S3 == AppendResult(S2, j)
        IN  /\ conns[k].open
            /\ CanReceive(k)
            /\ Received(Len(conns)) < MaxChunks
            /\ kind # "speech" => preset = "low"
            /\ preset = "low" => ~tts_ok
            /\ conns' = [conns EXCEPT ![k].received = @ + 1, ![k].chunks = @ + 1]
            /\ IF kind # "speech"
               THEN InstallServer(S2) /\ jobs' = jobs
               ELSE IF use_openai
               THEN InstallServer(S2) /\ jobs' = jobs \cup {j}
               ELSE InstallServer(S3) /\ jobs' = jobs \cup ResultJobs(S3, j)
            /\ UNCHANGED sent
            /\ SrvOthersUnchanged

RecvChunk ==
    \E k \in 1..Len(conns), kind \in {"empty", "quiet", "speech"},
       preset \in {"low", "high"}, tts_ok \in BOOLEAN :
        process_audio_chunk(k, kind, preset, tts_ok)

\* websocket k delivers a start_analysis or stop_analysis message.
RecvControl ==
    \E k \in 1..Len(conns) :
        LET c == conns[k].client_id
        IN  /\ conns[k].open
            /\ CanReceive(k)
            /\ Received(Len(conns)) < MaxChunks
            /\ conns' = [conns EXCEPT ![k].received = @ + 1]
            /\ jobs' = jobs \cup
                 (IF SendTarget(Server, c) # 0
                  THEN {[conn |-> k, seq |-> Received(Len(conns)) + 1, client_id |-> c,
                         pc |-> "last_send", type |-> "control", preset |-> "low",
                         risk_score |-> R(0), tts_ok |-> FALSE,
                         target |-> SendTarget(Server, c)]}
                  ELSE {})
            /\ UNCHANGED <<active_connections, client_sessions, client_buffers,
                           connection_count, saved, closed, sent>>
            /\ SrvOthersUnchanged

\* The OpenAI request of analyze_text returns: steps 4-6 of
\* process_audio_chunk up to the await on send_text.
LlmReturn ==
    \E j \in jobs :
        LET S1 == AppendResult(Server, j)
        IN  /\ j.pc = "llm"
            /\ InstallServer(S1)
            /\ jobs' = (jobs \ {j}) \cup ResultJobs(S1, j)
            /\ UNCHANGED <<conns, sent>>
            /\ SrvOthersUnchanged

\* send_text of a suspended send_personal_message returns or raises; on an
\* exception send_personal_message calls disconnect.  After the
\* analysis_result, process_audio_chunk goes on to step 7.
SendDone ==
    \E j \in jobs, ok \in BOOLEAN, db_ok \in BOOLEAN :
        LET S1 == IF ok THEN Server ELSE DisconnectS(Server, j.client_id, db_ok)
        IN  /\ j.pc \in {"send", "last_send"}
            /\ ok => db_ok
            /\ SavesNothing(Server, j.client_id) => db_ok
            /\ InstallServer(S1)
            /\ sent' = IF ok
                       THEN [sent EXCEPT ![j.target] =
                               Append(@, [type |-> j.type, conn |-> j.conn, seq |-> j.seq])]
                       ELSE sent
            /\ conns' = IF ok THEN conns ELSE [conns EXCEPT ![j.conn].released = TRUE]
            /\ jobs' = (jobs \ {j}) \cup (IF j.pc = "send" THEN AlertJobs(S1, j) ELSE {})
            /\ SrvOthersUnchanged

\* receive_text of websocket k raises (WebSocketDisconnect, or any other
\* exception such as a message that is not JSON): manager.disconnect, and
\* the endpoint returns.
RecvDisconnect ==
    \E k \in 1..Len(conns), db_ok \in BOOLEAN :
        /\ conns[k].open
        /\ CanReceive(k)
        /\ SavesNothing(Server, conns[k].client_id) => db_ok
        /\ InstallServer(DisconnectS(Server, conns[k].client_id, db_ok))
        /\ conns' = [conns EXCEPT ![k].open = FALSE, ![k].released = TRUE]
        /\ UNCHANGED <<jobs, sent>>
        /\ SrvOthersUnchanged

Next ==
    \/ Connect
    \/ RecvChunk
    \/ RecvControl
    \/ LlmReturn
    \/ SendDone
    \/ RecvDisconnect

Spec == InitSrv /\ [][Next]_vars


IdleCore ==
    /\ IdleBuf
    /\ IdleFuse
    /\ IdleDiar
    /\ IdleAlert
    /\ IdleSrv

(***************************************************************************)
(* SpecReport: ReportController.generate_incident_report                   *)
(* (controllers/report_controller.py).  A result is kept by the fields the *)
(* report reads: the label and the two times; the texts of the report are *)
(* kept as lists of their sentences.                                       *)
(***************************************************************************)
MaxResults == 2         \* results collected during a call
MaxEndTime == 2         \* times of a segment are 0..MaxEndTime

Labels == {"Safe", "Suspicious", "Scam", "Error"}

\* [r for r in results if r.scam_detection.label == label]
WithLabel(results, label) == SelectSeq(results, LAMBDA r : r.label = label)

\* The list comprehension of suspicious_segments, taking every label but Scam.
SuspiciousSegmentsLoose(results) == SelectSeq(results, LAMBDA r : r.label # "Scam")

SuspiciousSegments(results) == WithLabel(results, "Suspicious")

\* The duration without the second assignment: last end - first start as it is.
CallDurationPlain(results) ==
    IF results = <<>> THEN 0
    ELSE results[Len(results)].end_time - results[1].start_time

\* call_duration_seconds of generate_incident_report
CallDuration(results) ==
    IF results = <<>> THEN 0
    ELSE LET d == results[Len(results)].end_time - results[1].start_time
         IN  IF d < 0 THEN results[1].end_time - results[1].start_time ELSE d

SummaryText(results, duration, scam_segments, suspicious_segments) ==
    <<[say |-> "lasted", n |-> duration], [say |-> "analyzed", n |-> Len(results)]>>
    \o (IF scam_segments # <<>>
        THEN <<[say |-> "scam segments", n |-> Len(scam_segments)]>> ELSE <<>>)
    \o (IF suspicious_segments # <<>>
        THEN <<[say |-> "suspicious segments", n |-> Len(suspicious_segments)]>> ELSE <<>>)
    \o (IF scam_segments \o suspicious_segments = <<>>
        THEN <<[say |-> "No suspicious or scam activity detected.", n |-> 0]>>
        ELSE <<[say |-> "Key flagged segments are detailed below.", n |-> 0]>>)

RecommendedSteps(scam_segments, suspicious_segments) ==
    IF scam_segments # <<>> THEN <<"block", "report", "do not share">>
    ELSE IF suspicious_segments # <<>> THEN <<"be cautious", "verify identity">>
    ELSE <<"continue to be vigilant">>

\* ReportController.generate_incident_report
GenerateIncidentReport(all_analysis_results) ==
    LET scam_segments == WithLabel(all_analysis_results, "Scam")
        suspicious_segments == SuspiciousSegments(all_analysis_results)
        duration == CallDuration(all_analysis_results)
    IN  [call_duration_seconds |-> duration,
         total_segments_analyzed |-> Len(all_analysis_results),
         scam_segments_count |-> Len(scam_segments),
         suspicious_segments_count |-> Len(suspicious_segments),
         flagged_segments |-> scam_segments \o suspicious_segments,
         summary |-> SummaryText(all_analysis_results, duration, scam_segments,
                                 suspicious_segments),
         recommended_next_steps |-> RecommendedSteps(scam_segments, suspicious_segments)]

NoReport == [made |-> FALSE]

InitReport ==
    /\ r_results = <<>>
    /\ r_report = NoReport
    /\ IdleCore
    /\ IdlePipe
    /\ IdleVerif
    /\ IdleVad
    /\ IdleCall
    /\ IdleCache

\* A segment's result is added to the results of the call.
ReportCollect ==
    /\ Len(r_results) < MaxResults
    /\ \E label \in Labels, s \in 0..MaxEndTime, e \in 0..MaxEndTime :
         /\ s <= e
         /\ r_results' = Append(r_results, [label |-> label, start_time |-> s, end_time |-> e])
    /\ UNCHANGED r_report
    /\ UNCHANGED <<coreVars, pipeVars, verifVars, vadVars, callVars, cacheVars>>

\* generate_incident_report on the results collected so far
ReportGenerate ==
    /\ r_report' = [made |-> TRUE, of |-> r_results,
                    report |-> GenerateIncidentReport(r_results)]
    /\ UNCHANGED r_results
    /\ UNCHANGED <<coreVars, pipeVars, verifVars, vadVars, callVars, cacheVars>>

NextReport ==
    \/ ReportCollect
    \/ ReportGenerate

SpecReport == InitReport /\ [][NextReport]_vars


(***************************************************************************)
(* SpecPipe: AudioController.process_audio_chunk                           *)
(* (controllers/audio_controller.py), from the diarized segments on: per   *)
(* segment the transcription and spoofing calls, asyncio.gather, the       *)
(* scam-intent detection and the AnalysisResult.                           *)
(***************************************************************************)
MaxPipeSegments == 2    \* diarized segments of a chunk

\* The audio of a segment, and whether detect_synthetic_voice raises on it.
PipeSegments ==
    [audio : [model_loaded : {TRUE}, whisper_raises : BOOLEAN, said : {"", "words"},
              language : {"en"}, short : {TRUE}, energy_std : {0}, many_energies : {TRUE},
              zero_crossings : {100}, flip : {FALSE}, rand : {80}],
     spoof_raises : BOOLEAN]

\* transcribe_audio and detect_synthetic_voice are plain functions (def, not
\* async def): what they return is a result object, not an awaitable.
ReturnsAwaitable == [transcribe_audio |-> FALSE, detect_synthetic_voice |-> FALSE]

\* asyncio.gather(transcription_task, spoofing_task): ensure_future raises
\* TypeError on an argument that is no coroutine, future or awaitable.
GatherRaises ==
    ~ReturnsAwaitable.transcribe_audio \/ ~ReturnsAwaitable.detect_synthetic_voice

\* The body of the loop for one segment: the AnalysisResult, or the
\* exception that leaves process_audio_chunk.
ProcessSegment(seg, has_key, reply) ==
    LET transcription == TranscribeAudio(seg.audio)
    IN  IF seg.spoof_raises THEN [raised |-> TRUE, error |-> "spoofing"]
        ELSE IF GatherRaises THEN [raised |-> TRUE, error |-> "TypeError"]
        ELSE [raised |-> FALSE,
              result |-> [transcription |-> transcription,
                          anti_spoofing |-> DetectSyntheticVoice(seg.audio),
                          scam_detection |-> DetectScamIntent(transcription.text, has_key, reply),
                          alert_triggered |-> FALSE]]

\* The calls of one turn of the loop in the order the statements run them:
\* transcribe_audio and detect_synthetic_voice are ordinary calls, each
\* returns (or raises) before the next statement starts.
SegmentEvents(seg) ==
    <<"transcribe_start", "transcribe_end", "spoof_start">> \o
    (IF seg.spoof_raises THEN <<"spoof_raises">>
     ELSE <<"spoof_end">> \o
          (IF GatherRaises THEN <<"gather_raises">>
           ELSE <<"intent_start", "intent_end", "assembled">>))

\* process_audio_chunk is called on a chunk with these diarized segments.
InitPipe ==
    /\ p_events = <<>>
    /\ p_segments \in SeqsUpTo(PipeSegments, MaxPipeSegments)
    /\ p_done = 0
    /\ p_results = <<>>
    /\ p_status = "running"
    /\ IdleCore
    /\ IdleReport
    /\ IdleVerif
    /\ IdleVad
    /\ IdleCall
    /\ IdleCache

\* One turn of the for loop.
PipeSegment ==
    /\ p_status = "running"
    /\ p_done < Len(p_segments)
    /\ \E has_key \in BOOLEAN, reply \in Replies :
         LET out == ProcessSegment(p_segments[p_done + 1], has_key, reply)
         IN  IF out.raised
             THEN /\ p_status' = "raised"
                  /\ UNCHANGED p_results
             ELSE /\ p_status' = "running"
                  /\ p_results' = Append(p_results, out.result)
    /\ p_done' = p_done + 1
    /\ p_events' = SegmentEvents(p_segments[p_done + 1])
    /\ UNCHANGED p_segments
    /\ UNCHANGED <<coreVars, reportVars, verifVars, vadVars, callVars, cacheVars>>

\* The loop is over (or VAD found no segment): return results.
PipeReturn ==
    /\ p_status = "running"
    /\ p_done = Len(p_segments)
    /\ p_status' = "returned"
    /\ UNCHANGED <<p_segments, p_done, p_results, p_events>>
    /\ UNCHANGED <<coreVars, reportVars, verifVars, vadVars, callVars, cacheVars>>

NextPipe ==
    \/ PipeSegment
    \/ PipeReturn

SpecPipe == InitPipe /\ [][NextPipe]_vars


(***************************************************************************)
(* SpecVerif: VerificationController (controllers/verification_controller  *)
(* .py): enroll_voice and verify_caller_voice on the safe list.            *)
(***************************************************************************)
MaxVerifCalls == 3      \* enroll_voice and verify_caller_voice calls over a run

Names == {"mum", "bank"}

\* An audio segment: empty or not, whether get_speaker_embedding raises on
\* it, and the embedding it has otherwise.
VerifAudio == [empty : BOOLEAN, raises : BOOLEAN, emb : Embeddings]

VerifyThreshold == <<7, 100>>       \* similarity_threshold = 0.7 = 7 / sqrt(100)

\* The dict after enroll_voice(name, audio_segment, sample_rate).
EnrollVoice(safe, name, audio) ==
    IF audio.empty THEN safe
    ELSE IF audio.raises THEN safe
    ELSE Put(safe, name, audio.emb)

\* The loop of verify_caller_voice: the names whose enrolled embedding is
\* more similar than the threshold, with the similarity.
Matches(safe, emb) ==
    LET hits == {n \in DOMAIN safe :
                   SimGreater(CosineSimilarity(emb, safe[n]), VerifyThreshold)}
    IN  [n \in hits |-> CosineSimilarity(emb, safe[n])]

\* verify_caller_voice that also keeps the caller's embedding in the dict.
VerifyCallerVoiceCaching(safe, audio) ==
    IF audio.empty \/ audio.raises
    THEN [matches |-> <<>>, safe_list |-> safe]
    ELSE [matches |-> Matches(safe, audio.emb),
          safe_list |-> Put(safe, "caller", audio.emb)]

\* verify_caller_voice(audio_segment, sample_rate): the matches returned and
\* the dict after the call.
VerifyCallerVoice(safe, audio) ==
    IF DOMAIN safe = {} THEN [matches |-> <<>>, safe_list |-> safe]
    ELSE IF audio.empty THEN [matches |-> <<>>, safe_list |-> safe]
    ELSE IF audio.raises THEN [matches |-> <<>>, safe_list |-> safe]
    ELSE [matches |-> Matches(safe, audio.emb), safe_list |-> safe]

\* VerificationController.__init__
InitVerif ==
    /\ safe_list_voice_prints = <<>>
    /\ v_calls = 0
    /\ v_last = [called |-> FALSE]
    /\ IdleCore
    /\ IdleReport
    /\ IdlePipe
    /\ IdleVad
    /\ IdleCall
    /\ IdleCache

enroll_voice ==
    /\ v_calls < MaxVerifCalls
    /\ \E name \in Names, audio \in VerifAudio :
         safe_list_voice_prints' = EnrollVoice(safe_list_voice_prints, name, audio)
    /\ v_calls' = v_calls + 1
    /\ v_last' = [called |-> FALSE]
    /\ UNCHANGED <<coreVars, reportVars, pipeVars, vadVars, callVars, cacheVars>>

verify_caller_voice ==
    /\ v_calls < MaxVerifCalls
    /\ \E audio \in VerifAudio :
         LET r == VerifyCallerVoice(safe_list_voice_prints, audio)
         IN  /\ safe_list_voice_prints' = r.safe_list
             /\ v_last' = [called |-> TRUE, before |-> safe_list_voice_prints,
                           usable |-> ~audio.empty /\ ~audio.raises,
                           matches |-> r.matches]
    /\ v_calls' = v_calls + 1
    /\ UNCHANGED <<coreVars, reportVars, pipeVars, vadVars, callVars, cacheVars>>

NextVerif ==
    \/ enroll_voice
    \/ verify_caller_voice

SpecVerif == InitVerif /\ [][NextVerif]_vars


(***************************************************************************)
(* SpecVad: detect_speech_segments (audio_processing.py), the energy-based *)
(* voice activity detection.  Samples are multiples of 1/16, so that the   *)
(* squares and their sums are exact in floating point and no energy equals *)
(* the threshold 0.01.                                                     *)
(***************************************************************************)
MaxAudioLen == 6        \* samples in audio_data

Samples == {0, 1, 2}            \* 0, 1/16 and 1/8
SampleRates == {100, 200}
MinSpeechDurations == {1, 2, 10}    \* 0.01 s, 0.02 s and the default 0.1 s

FrameSize(sample_rate) == (2 * sample_rate) \div 100    \* int(0.02 * sample_rate)
HopSize(sample_rate) == sample_rate \div 100            \* int(0.01 * sample_rate)

\* np.sum(frame**2) for frame = audio_data[i : i + frame_size], in 1/256.
RECURSIVE SumSquares(_, _, _)
SumSquares(audio, i, n) ==
    IF n = 0 THEN 0
    ELSE audio[i + n] * audio[i + n] + SumSquares(audio, i, n - 1)

\* The comparison of the energy with the threshold, the wrong way round.
FrameIsSpeechReversed(sum_squares, frame_size) == 100 * sum_squares < 256 * frame_size

\* energy > threshold, for energy = sum_squares / 256 / frame_size and
\* threshold = 0.01
FrameIsSpeech(sum_squares, frame_size) == 100 * sum_squares > 256 * frame_size

\* The test of the duration left out: every segment passes.
AnyDuration(n, sample_rate, min100) == TRUE

\* segment_duration >= min_speech_duration for a segment of n samples
LongEnough(n, sample_rate, min100) == 100 * n >= min100 * sample_rate

\* The for loop from offset i on: in_speech, current_segment_start and
\* speech_segments when it ends.
RECURSIVE VadLoop(_, _, _, _, _, _, _)
VadLoop(audio, sample_rate, min100, i, in_speech, start, segments) ==
    LET frame_size == FrameSize(sample_rate)
    IN  IF i >= Len(audio) - frame_size
        THEN [in_speech |-> in_speech, current_segment_start |-> start,
              speech_segments |-> segments]
        ELSE IF FrameIsSpeech(SumSquares(audio, i, frame_size), frame_size)
        THEN VadLoop(audio, sample_rate, min100, i + HopSize(sample_rate), TRUE,
                     IF in_speech THEN start ELSE i, segments)
        ELSE VadLoop(audio, sample_rate, min100, i + HopSize(sample_rate), FALSE, start,
                     IF in_speech /\ LongEnough(i - start, sample_rate, min100)
                     THEN Append(segments, <<start, i>>)
                     ELSE segments)

\* detect_speech_segments closing the segment still open at the end of the
\* audio one frame further than the audio goes.
DetectSpeechSegmentsPadded(audio, sample_rate, min100) ==
    LET loop == VadLoop(audio, sample_rate, min100, 0, FALSE, 0, <<>>)
    IN  IF loop.in_speech
        THEN Append(loop.speech_segments,
                    <<loop.current_segment_start, Len(audio) + FrameSize(sample_rate)>>)
        ELSE loop.speech_segments

\* detect_speech_segments(audio_data, sample_rate, 0.01, min_speech_duration)
DetectSpeechSegments(audio, sample_rate, min100) ==
    LET loop == VadLoop(audio, sample_rate, min100, 0, FALSE, 0, <<>>)
    IN  IF /\ loop.in_speech
           /\ LongEnough(Len(audio) - loop.current_segment_start, sample_rate, min100)
        THEN Append(loop.speech_segments, <<loop.current_segment_start, Len(audio)>>)
        ELSE loop.speech_segments

\* The arguments of a call.
InitVad ==
    /\ vad_audio \in SeqsUpTo(Samples, MaxAudioLen)
    /\ vad_rate \in SampleRates
    /\ vad_min \in MinSpeechDurations
    /\ vad_out = [done |-> FALSE]
    /\ IdleCore
    /\ IdleReport
    /\ IdlePipe
    /\ IdleVerif
    /\ IdleCall
    /\ IdleCache

VadDetect ==
    /\ ~vad_out.done
    /\ vad_out' = [done |-> TRUE,
                   speech_segments |-> DetectSpeechSegments(vad_audio, vad_rate, vad_min)]
    /\ UNCHANGED <<vad_audio, vad_rate, vad_min>>
    /\ UNCHANGED <<coreVars, reportVars, pipeVars, verifVars, callVars, cacheVars>>

NextVad ==
    \/ VadDetect

SpecVad == InitVad /\ [][NextVad]_vars


(***************************************************************************)
(* SpecCall: one AudioController (controllers/audio_controller.py) fed the *)
(* chunks of successive calls.  The controller builds its                  *)
(* DiarizationService in __init__; process_audio_chunk takes the start     *)
(* time of the chunk relative to the call start, so a call begins with a   *)
(* chunk at current_time_offset 0.                                         *)
(***************************************************************************)
MaxCalls == 2           \* calls begun over a run
MaxCallSpans == 2       \* spans diarized over a run

\* process_audio_chunk(audio_data_np, current_time_offset) on a chunk in
\* which VAD finds one span: lines 41-50, VAD and then diarize_segments,
\* which assigns the span's embedding a speaker.  Nothing else touches the
\* registry: reset_speakers has no caller.
call_chunk(at_call_start, embedding) ==
    LET r == AssignSpeaker(speaker_embeddings, speaker_id_counter, embedding)
    IN  /\ d_calls < MaxCallSpans
        /\ IF at_call_start THEN c_calls < MaxCalls ELSE c_calls >= 1
        /\ c_calls' = IF at_call_start THEN c_calls + 1 ELSE c_calls
        /\ c_first' = at_call_start
        /\ speaker_embeddings' = r.reg
        /\ speaker_id_counter' = r.counter
        /\ d_last' = [probe |-> 0, repeat |-> FALSE, id |-> r.id,
                      created |-> Len(r.reg) > Len(speaker_embeddings),
                      max_similarity |-> r.max_similarity,
                      before |-> speaker_embeddings]
        /\ d_calls' = d_calls + 1
        /\ UNCHANGED d_probes
        /\ UNCHANGED <<bufVars, fuseVars, alertVars, srvVars>>
        /\ UNCHANGED <<reportVars, pipeVars, verifVars, vadVars, cacheVars>>

CallFirstChunk ==
    \E embedding \in Embeddings : call_chunk(TRUE, embedding)

CallLaterChunk ==
    \E embedding \in Embeddings : call_chunk(FALSE, embedding)

NextCall ==
    \/ CallFirstChunk
    \/ CallLaterChunk

\* AudioController.__init__ builds the DiarizationService.
SpecCall == InitDiar /\ [][NextCall]_vars


(***************************************************************************)
(* SpecCache: the transcription cache of AudioProcessor                    *)
(* (audio_processor.py): the dict transcription_cache, read through        *)
(* _get_cached_transcription, which is wrapped in functools.lru_cache, and *)
(* written by _cache_transcription; both are called by transcribe_chunk.   *)
(***************************************************************************)
CacheSize == 2          \* settings.CACHE_SIZE (1000 in config.py)
MaxTranscribe == 4      \* transcribe_chunk calls over a run

CacheKeys == {"h1", "h2", "h3"}     \* f"{audio_hash}_{language}"
Transcriptions == {"r1", "r2"}      \* transcription results; "None" is None

\* d.get(key) on the items of a dict
DictGet(d, key) ==
    IF \E i \in 1..Len(d) : d[i].key = key
    THEN d[CHOOSE i \in 1..Len(d) : d[i].key = key].value
    ELSE "None"

\* d[key] = value: a present key keeps its place, a new one goes last
DictSet(d, key, value) ==
    IF \E i \in 1..Len(d) : d[i].key = key
    THEN [i \in 1..Len(d) |-> IF d[i].key = key THEN [key |-> key, value |-> value] ELSE d[i]]
    ELSE Append(d, [key |-> key, value |-> value])

\* A call of a function wrapped in lru_cache(maxsize): a key it holds is
\* answered from it without calling the function and becomes the most
\* recent; otherwise the function's value is stored, the least recent entry
\* making room.
LruCall(memo, maxsize, key, computed) ==
    IF \E i \in 1..Len(memo) : memo[i].key = key
    THEN LET hit == CHOOSE i \in 1..Len(memo) : memo[i].key = key
         IN  [value |-> memo[hit].value,
              memo |-> Append(SelectSeq(memo, LAMBDA e : e.key # key), memo[hit])]
    ELSE LET grown == Append(memo, [key |-> key, value |-> computed])
         IN  [value |-> computed,
              memo |-> IF Len(grown) > maxsize THEN Tail(grown) ELSE grown]

\* _get_cached_transcription(audio_hash, language)
GetCachedTranscription(memo, cache, key) ==
    LruCall(memo, CacheSize, key, DictGet(cache, key))

\* _cache_transcription(audio_hash, language, result)
CacheTranscription(cache, key, result) ==
    LET stored == DictSet(cache, key, result)
    IN  IF Len(stored) > CacheSize THEN Tail(stored) ELSE stored

\* AudioProcessor.__init__
InitCache ==
    /\ transcription_cache = <<>>
    /\ lru = <<>>
    /\ t_calls = 0
    /\ t_last = [called |-> FALSE]
    /\ IdleCore
    /\ IdleReport
    /\ IdlePipe
    /\ IdleVerif
    /\ IdleVad
    /\ IdleCall

\* transcribe_chunk on audio with hash key that Whisper transcribes as
\* result: the cache is asked first, and on a miss the transcription is
\* stored.
transcribe_chunk ==
    /\ t_calls < MaxTranscribe
    /\ \E key \in CacheKeys, result \in Transcriptions :
         LET cached_result == GetCachedTranscription(lru, transcription_cache, key)
         IN  /\ lru' = cached_result.memo
             /\ transcription_cache' =
                  IF cached_result.value # "None" THEN transcription_cache
                  ELSE CacheTranscription(transcription_cache, key, result)
             /\ t_last' = [called |-> TRUE, key |-> key, found |-> cached_result.value,
                           held |-> DictGet(transcription_cache, key),
                           before |-> transcription_cache]
    /\ t_calls' = t_calls + 1
    /\ UNCHANGED <<coreVars, reportVars, pipeVars, verifVars, vadVars, callVars>>

NextCache ==
    \/ transcribe_chunk

SpecCache == InitCache /\ [][NextCache]_vars

----
\* C2: sessions never share mutable state: results of a websocket are
\* accumulated only in the session its connect created and delivered only on
\* that websocket, a session's buffer holds only its own audio, and the
\* session of the latest connection of a client id stays in place until that
\* connection's own work disconnects it.
C2_SessionsIsolated ==
    /\ \A c \in DOMAIN client_sessions :
         \A i \in 1..Len(client_sessions[c].transcript_segments) :
            client_sessions[c].transcript_segments[i].conn = client_sessions[c].owner
    /\ \A k \in 1..Len(sent) : \A i \in 1..Len(sent[k]) : sent[k][i].conn = k
    /\ \A c \in DOMAIN client_buffers \cap DOMAIN client_sessions :
         \A i \in 1..Len(client_buffers[c]) :
            client_buffers[c][i] = client_sessions[c].owner
    /\ \A k \in 1..Len(conns) :
         (/\ conns[k].open
          /\ ~conns[k].released
          /\ \A n \in (k + 1)..Len(conns) : conns[n].client_id # conns[k].client_id)
         => /\ conns[k].client_id \in DOMAIN client_sessions
            /\ client_sessions[conns[k].client_id].owner = k

\* C3: once disconnect has run for a client id, client_buffers and
\* client_sessions hold no entry for it until the next connect of that id.
C3_ClosedStaysDiscarded ==
    \A c \in closed :
        /\ c \notin DOMAIN client_buffers
        /\ c \notin DOMAIN client_sessions

\* C4: within one session the chunks are processed in arrival order: the
\* accumulated results are in the order of arrival, and no two chunks of the
\* same session are in processing at the same time.
C4_InArrivalOrder ==
    /\ \A c \in DOMAIN client_sessions :
         \A i, n \in 1..Len(client_sessions[c].transcript_segments) :
            i < n => client_sessions[c].transcript_segments[i].seq
                       < client_sessions[c].transcript_segments[n].seq
    /\ \A j1, j2 \in jobs :
         (j1 # j2 /\ j1.type # "control" /\ j2.type # "control")
            => j1.client_id # j2.client_id

\* The code names no maximum; any N below the number of chunks a run
\* delivers stands for it.
HistoryLimit == MaxChunks - 1

\* C5: a session never retains more than a fixed number of results, in
\* transcript_segments or in risk_scores.
C5_HistoryBounded ==
    \A c \in DOMAIN client_sessions :
        /\ Len(client_sessions[c].transcript_segments) <= HistoryLimit
        /\ Len(client_sessions[c].risk_scores) <= HistoryLimit

\* C9: a segment whose transcription is empty is labelled Safe with the
\* no-speech rationale without the classifier being invoked, and no alert is
\* requested for it, whatever the spoofing detector returned.
C9_EmptyIsSafeNoAlert ==
    \A i \in 1..Len(a_results) :
        Strip(a_results[i].transcription.text) = "" =>
            /\ a_results[i].scam_detection.label = "Safe"
            /\ a_results[i].scam_detection.rationale = "No speech detected or transcribed."
            /\ ~a_results[i].scam_detection.invoked
            /\ i <= Len(a_alerts) => ~a_alerts[i].requested

\* C10: assign_speaker called with exactly a registered speaker's current
\* centroid returns that speaker's id with similarity 1.0 and creates no new
\* speaker; so does the repeated call.
C10_CentroidIdempotent ==
    d_last.probe # 0 =>
        /\ d_last.id = d_last.probe
        /\ ~d_last.created
        /\ d_last.max_similarity[1] > 0
        /\ d_last.max_similarity[1] * d_last.max_similarity[1] = d_last.max_similarity[2]
        /\ Len(speaker_embeddings) = Len(d_last.before)

\* The centroid of a speaker, moved by an earlier match away from the
\* embedding that registered the speaker, was passed twice in a row.
C10_Witness ==
    /\ d_last.probe # 0
    /\ d_last.repeat
    /\ \E i \in 1..Len(speaker_embeddings) :
          speaker_embeddings[i].id = d_last.probe /\ speaker_embeddings[i].emb.k > 0

\* C7: the fused scores (the text composite of _combine_scores and the risk
\* score of calculate_risk_score) are within [0, 100] for all inputs, and a
\* second invocation on the same inputs yields the same score and level.
InRange100(x) == RLe(R(0), x) /\ RLe(x, R(100))

ScenarioA == ~f_text.blank /\ f_text.language = "en" /\ f_text.scam >= 2

C8_ScenarioA ==
    (f_out.done /\ ScenarioA) =>
        /\ RLt(R(70), f_out.scam.scores.pattern)
        /\ RLt(R(0), f_out.scam.scores.personal_info)
        /\ RLe(R(70), f_out.risk_score)
        /\ f_out.risk_level = "scam"
        /\ f_out.alert
        /\ f_out.alert_type \in {"scam_patterns", "personal_info"}

\* C1: after any sequence of add_chunk calls the buffer holds at most
\* max_duration * sample_rate samples, and they are exactly the most recently
\* appended samples, in arrival order.
C1_BufferBounded ==
    /\ Len(buffer) <= max_samples
    /\ buffer = LastN(appended, Min(Len(appended), max_samples))

\* A chunk larger than the window was appended to a non-empty window and
\* older samples were evicted.
C1_Witness ==
    /\ max_samples > 0
    /\ Len(last_chunk) > max_samples
    /\ Len(appended) > Len(last_chunk)
    /\ Len(buffer) = max_samples

\* C6 (as claimed): get_recent_audio(duration), duration >= 0, returns exactly
\* the last min(len(buffer), int(duration * sample_rate)) samples.
C6_RecentIsLastN ==
    recent.asked >= 0 =>
        recent.out = LastN(recent.held,
                           Min(Len(recent.held), IntSamples(recent.asked, BufSampleRate)))


\* C11: on an empty list the report has total, scam and suspicious counts 0,
\* duration 0 and the no-activity summary; on a non-empty list of Safe
\* results it has no flagged segment and only the vigilance recommendation.
C11_EmptyAndAllSafe ==
    r_report.made =>
        /\ r_report.of = <<>> =>
             /\ r_report.report.total_segments_analyzed = 0
             /\ r_report.report.scam_segments_count = 0
             /\ r_report.report.suspicious_segments_count = 0
             /\ r_report.report.call_duration_seconds = 0
             /\ r_report.report.summary =
                  <<[say |-> "lasted", n |-> 0], [say |-> "analyzed", n |-> 0],
                    [say |-> "No suspicious or scam activity detected.", n |-> 0]>>
        /\ (r_report.of # <<>> /\ \A i \in 1..Len(r_report.of) : r_report.of[i].label = "Safe") =>
             /\ r_report.report.flagged_segments = <<>>
             /\ r_report.report.scam_segments_count = 0
             /\ r_report.report.suspicious_segments_count = 0
             /\ r_report.report.recommended_next_steps = <<"continue to be vigilant">>

\* A report was generated from two Safe results.
C11_Witness ==
    /\ r_report.made
    /\ Len(r_report.of) >= 2
    /\ \A i \in 1..Len(r_report.of) : r_report.of[i].label = "Safe"


\* C12: the alert audio of one segment never delays the result of the next
\* segment of the session: while an audio_alert is being delivered, the
\* websocket's endpoint is free to take the next chunk.
C12_AlertDoesNotDelayResults ==
    \A j \in jobs : j.type = "audio_alert" => CanReceive(j.conn)

\* C13: processing an empty or undecodable chunk leaves the sessions (chunk
\* counter, results, risk scores), the buffers and the persisted records
\* unchanged, sends nothing and disconnects nobody.
C13_EmptyChunkIsNoOp ==
    [][\A k \in 1..Len(conns) :
         process_audio_chunk(k, "empty", "low", FALSE) =>
            UNCHANGED <<client_sessions, client_buffers, saved, sent,
                        active_connections, jobs>>]_vars


\* C14: a failing transcription or spoofing detection never aborts the
\* segment or the chunk: the chunk is never left by an exception, and every
\* segment gone through has its AnalysisResult, with the empty transcript
\* where the transcription failed.
C14_FailuresDegrade ==
    /\ p_status # "raised"
    /\ p_status \in {"running", "returned"} =>
         /\ Len(p_results) = p_done
         /\ \A i \in 1..Len(p_results) :
              p_segments[i].audio.whisper_raises => p_results[i].transcription.text = ""


\* C15: verify_caller_voice leaves the safe list as it found it (same names,
\* same voice prints), whatever the segment (empty audio and embedder
\* failure included), and returns no match when the safe list is empty.
C15_VerifyReadsOnly ==
    v_last.called =>
        /\ safe_list_voice_prints = v_last.before
        /\ DOMAIN v_last.before = {} => DOMAIN v_last.matches = {}

\* A verification of a usable segment found a match in a non-empty safe list.
C15_Witness ==
    /\ v_last.called
    /\ v_last.usable
    /\ DOMAIN v_last.before # {}
    /\ DOMAIN v_last.matches # {}


\* The offsets of the whole frames of the window, one per hop.
FrameOffsets ==
    {i \in 0..Len(vad_audio) :
        /\ i % HopSize(vad_rate) = 0
        /\ i + FrameSize(vad_rate) <= Len(vad_audio)}

\* Every whole frame of the window has an energy below the threshold
\* (a window shorter than a frame has none).
AllFramesQuiet ==
    \A i \in FrameOffsets :
        100 * SumSquares(vad_audio, i, FrameSize(vad_rate)) < 256 * FrameSize(vad_rate)

\* C16: on a window all of whose frames have an energy below the threshold,
\* windows shorter than one frame included, detect_speech_segments returns
\* the empty list.
C16_QuietWindowNoSegments ==
    (vad_out.done /\ AllFramesQuiet) => vad_out.speech_segments = <<>>

\* The function ran on a window of several quiet frames that is not all zero.
C16_Witness ==
    /\ vad_out.done
    /\ AllFramesQuiet
    /\ Cardinality(FrameOffsets) >= 2
    /\ \E i \in 1..Len(vad_audio) : vad_audio[i] # 0
    /\ vad_out.speech_segments = <<>>


\* The sum of a weight table, in hundredths.
WeightSum(w) == w.pattern + w.pressure + w.personal_info + w.ml + w.llm + w.context

\* C17: the weights _combine_scores applies sum to 1.0, with the LLM signal
\* (use_openai) and without it.
C17_WeightsSumToOne ==
    WeightSum(Weights(use_openai)) = 100


\* The similarity of the embedding of the latest span to the i-th centroid
\* registered before the call.
SimTo(i) == CosineSimilarity(d_last.embedding, d_last.before[i].emb)

\* The centroids that were more similar to it than the threshold.
AboveThreshold ==
    {i \in 1..Len(d_last.before) : SimGreater(SimTo(i), SimilarityThreshold)}

IdsOf(reg) == {reg[i].id : i \in 1..Len(reg)}

\* 5 * c = 4 * old + new, the vectors brought to one denominator.
IsBlend(c, old, new) ==
    LET K == Max(Max(old.k, new.k) + 1, c.k)
        S(x, j) == x.v[j] * Pow5(K - x.k)
    IN  \A j \in 1..2 : 5 * S(c, j) = 4 * S(old, j) + S(new, j)

\* C18: assign_speaker returns a registered id exactly when some registered
\* centroid is more similar to the embedding than the threshold; then the id
\* is one of greatest similarity and only its centroid changes, to
\* 0.8 old + 0.2 new; otherwise the id is the next counter value, greater
\* than every registered id, the embedding is registered as its centroid
\* and the other centroids stay as they were.
C18_AssignSpeakerContract ==
    d_last.id # 0 =>
        LET before == d_last.before
            after == speaker_embeddings
        IN  /\ (d_last.id \in IdsOf(before)) <=> (AboveThreshold # {})
            /\ AboveThreshold # {} =>
                 /\ \E i \in AboveThreshold :
                      /\ before[i].id = d_last.id
                      /\ \A j \in 1..Len(before) : ~SimGreater(SimTo(j), SimTo(i))
                 /\ Len(after) = Len(before)
                 /\ \A j \in 1..Len(before) :
                      /\ after[j].id = before[j].id
                      /\ IF before[j].id = d_last.id
                         THEN IsBlend(after[j].emb, before[j].emb, d_last.embedding)
                         ELSE after[j].emb = before[j].emb
                 /\ speaker_id_counter = d_last.counter
            /\ AboveThreshold = {} =>
                 /\ d_last.id = d_last.counter + 1
                 /\ \A j \in 1..Len(before) : before[j].id < d_last.id
                 /\ after = Append(before, [id |-> d_last.id, emb |-> d_last.embedding])
                 /\ speaker_id_counter = d_last.id

\* A span matched one of two registered speakers and moved its centroid.
C18_Witness ==
    /\ d_last.id # 0
    /\ Len(d_last.before) = 2
    /\ AboveThreshold # {}
    /\ \E j \in 1..2 : speaker_embeddings[j].emb # d_last.before[j].emb

\* The centroids of greatest similarity to the embedding of the latest span.
MostSimilar ==
    {i \in 1..Len(d_last.before) :
        \A j \in 1..Len(d_last.before) : ~SimGreater(SimTo(j), SimTo(i))}

\* C19: when several registered centroids share the greatest similarity and
\* it is above the threshold, assign_speaker returns the lowest of their ids,
\* the one registered first.
C19_TieGoesToFirst ==
    (d_last.id # 0 /\ MostSimilar \cap AboveThreshold # {}) =>
        /\ \E i \in MostSimilar : d_last.before[i].id = d_last.id
        /\ \A i \in MostSimilar :
             /\ d_last.before[i].id >= d_last.id
             /\ \A j \in 1..Len(d_last.before) :
                  j < i => d_last.before[j].id < d_last.before[i].id

\* Two centroids tied above the threshold and the span got the first one's id.
C19_Witness ==
    /\ d_last.id # 0
    /\ Cardinality(MostSimilar \cap AboveThreshold) >= 2
    /\ d_last.id = d_last.before[1].id


\* C20: the registry is empty when a call begins: the first span of every
\* call is compared with no centroid of an earlier call and gets speaker
\* id 1.
C20_RegistryEmptyAtCallStart ==
    (d_last.id # 0 /\ c_first) =>
        /\ d_last.before = <<>>
        /\ d_last.id = 1


\* The place of an event among those of the latest segment (0: it did not
\* happen).
EventAt(e) ==
    IF \E i \in 1..Len(p_events) : p_events[i] = e
    THEN CHOOSE i \in 1..Len(p_events) : p_events[i] = e
    ELSE 0

\* C21: for every segment the transcription and the spoofing detection are
\* both started before either has resolved, the scam-intent detection starts
\* only after both have resolved, and the AnalysisResult is assembled only
\* after all three.
C21_RootTasksConcurrent ==
    p_done > 0 =>
        /\ EventAt("transcribe_start") > 0
        /\ EventAt("spoof_start") > 0
        /\ EventAt("transcribe_end") > 0 => EventAt("spoof_start") < EventAt("transcribe_end")
        /\ EventAt("spoof_end") > 0 => EventAt("transcribe_start") < EventAt("spoof_end")
        /\ EventAt("intent_start") > 0 =>
             /\ EventAt("transcribe_end") \in 1..EventAt("intent_start")
             /\ EventAt("spoof_end") \in 1..EventAt("intent_start")
        /\ EventAt("assembled") > 0 =>
             EventAt("intent_end") \in 1..EventAt("assembled")


\* The score as C22 states it: 0.7 text composite + 0.3 voice spoofing score,
\* times 1.2 when at least two of the six sub-scores exceed 70, clamped.
StatedRiskScore(out) ==
    LET base == RAdd(RMul(out.scam.risk_score, Rat(7, 10)),
                     RMul(out.voice.spoofing_score, Rat(3, 10)))
        high == {key \in ScoreKeys : RLt(R(70), out.scam.scores[key])}
    IN  Clamp100(IF Cardinality(high) >= 2 THEN RMul(base, Rat(6, 5)) ELSE base)

\* C22: the risk score sent is the stated combination and nothing else (the
\* detectors' confidence does not enter it), and the level is scam from 70,
\* suspicious from 40 and safe below.
C22_ScoreIsStatedCombination ==
    f_out.done =>
        /\ f_out.risk_score = StatedRiskScore(f_out)
        /\ f_out.risk_level =
             (IF RLe(R(70), f_out.risk_score) THEN "scam"
              ELSE IF RLe(R(40), f_out.risk_score) THEN "suspicious" ELSE "safe")


\* The category as C23 states it for a result of the pipeline: the first that
\* applies of personal-info request, pressure tactic, voice spoofing (the
\* voice analysis flagged the segment), three indicators or more, score >= 80.
StatedAlertType(out) ==
    LET types == {out.scam.indicators[i] : i \in 1..Len(out.scam.indicators)}
    IN  IF "personal_info_request" \in types THEN "personal_info"
        ELSE IF "pressure_tactic" \in types THEN "pressure_tactics"
        ELSE IF out.voice.is_spoofed THEN "voice_spoofing"
        ELSE IF Len(out.scam.indicators) >= 3 THEN "scam_patterns"
        ELSE IF RLe(R(80), out.risk_score) THEN "high_risk"
        ELSE "medium_risk"

\* C23: the category of an alert is the first that applies in the stated
\* order; a result whose voice analysis flagged spoofing and that has no
\* personal-info or pressure indicator gets voice_spoofing.
C23_AlertCategoryByPriority ==
    (f_out.done /\ f_out.alert) => f_out.alert_type = StatedAlertType(f_out)


\* C24: the spans detect_speech_segments returns are sorted by start, do not
\* overlap (a span ends no later than the next starts) and lie inside the
\* window, 0 <= start < end <= len(audio).
C24_SpansOrderedInsideWindow ==
    vad_out.done =>
        LET spans == vad_out.speech_segments
        IN  /\ \A i \in 1..Len(spans) :
                 /\ 0 <= spans[i][1]
                 /\ spans[i][1] < spans[i][2]
                 /\ spans[i][2] <= Len(vad_audio)
            /\ \A i \in 1..(Len(spans) - 1) :
                 /\ spans[i][1] < spans[i + 1][1]
                 /\ spans[i][2] <= spans[i + 1][1]

\* Two spans were returned, the second one open until the end of the window.
C24_Witness ==
    /\ vad_out.done
    /\ Len(vad_out.speech_segments) = 2
    /\ vad_out.speech_segments[2][2] = Len(vad_audio)


\* The frames the loop goes through: range(0, len - frame_size, hop_size).
NumFrames ==
    IF Len(vad_audio) - FrameSize(vad_rate) <= 0 THEN 0
    ELSE ((Len(vad_audio) - FrameSize(vad_rate) - 1) \div HopSize(vad_rate)) + 1

\* Frame n (from 0) is active: its energy is above the threshold.
ActiveFrame(n) ==
    100 * SumSquares(vad_audio, n * HopSize(vad_rate), FrameSize(vad_rate))
        > 256 * FrameSize(vad_rate)

\* The maximal runs of active frames, <<a, b>> for frames a .. b - 1.
ActiveRuns ==
    {r \in (0..NumFrames) \X (0..NumFrames) :
        /\ r[1] < r[2]
        /\ \A n \in r[1]..(r[2] - 1) : ActiveFrame(n)
        /\ r[1] = 0 \/ ~ActiveFrame(r[1] - 1)
        /\ r[2] = NumFrames \/ ~ActiveFrame(r[2])}

\* The span of a run: from its first frame to the frame that ends it, or to
\* the end of the window when it is still active there.
SpanOfRun(r) ==
    <<r[1] * HopSize(vad_rate),
      IF r[2] = NumFrames THEN Len(vad_audio) ELSE r[2] * HopSize(vad_rate)>>

\* duration of the span >= min_speech_duration
SpanLongEnough(s) == 100 * (s[2] - s[1]) >= vad_min * vad_rate

\* C25: a maximal run of active frames is emitted as a span exactly when the
\* span lasts at least min_speech_duration, the run still active at the end
\* of the window included (its span ends with the window); no span emitted
\* is shorter than min_speech_duration.
C25_RunsEmittedByDuration ==
    vad_out.done =>
        LET spans == vad_out.speech_segments
            emitted == {spans[i] : i \in 1..Len(spans)}
        IN  /\ emitted = {SpanOfRun(r) : r \in {q \in ActiveRuns : SpanLongEnough(SpanOfRun(q))}}
            /\ Len(spans) = Cardinality(emitted)
            /\ \A s \in emitted : SpanLongEnough(s)

\* One run was too short to be emitted, and the run still active at the end
\* of the window was emitted.
C25_Witness ==
    /\ vad_out.done
    /\ \E r \in ActiveRuns : ~SpanLongEnough(SpanOfRun(r))
    /\ \E r \in ActiveRuns :
         /\ r[2] = NumFrames
         /\ \E i \in 1..Len(vad_out.speech_segments) :
              vad_out.speech_segments[i] = SpanOfRun(r)


\* The counts of a report: the flagged list has scam_count + suspicious_count
\* entries, at most as many as there are results.
CountsAgree(report) ==
    /\ Len(report.flagged_segments) =
         report.scam_segments_count + report.suspicious_segments_count
    /\ report.scam_segments_count + report.suspicious_segments_count
         <= report.total_segments_analyzed

HandedOver(k) == {i \in 1..Len(saved) : saved[i].owner = k}

\* C27: the summary of the session a connect created is handed to
\* persistence at most once, however often disconnect runs for the client,
\* and exactly once when the websocket delivered a chunk and its disconnect
\* has run; after that disconnect no session entry and no buffered audio of
\* the websocket remain, whether the database stored the record or failed.
C27_PersistedOncePerConnect ==
    \A k \in 1..Len(conns) :
        /\ Cardinality(HandedOver(k)) <= 1
        /\ conns[k].released =>
             /\ conns[k].chunks > 0 => Cardinality(HandedOver(k)) = 1
             /\ \A c \in DOMAIN client_sessions : client_sessions[c].owner # k
             /\ \A c \in DOMAIN client_buffers :
                  \A i \in 1..Len(client_buffers[c]) : client_buffers[c][i] # k


\* C28: in every reachable state performance_monitor.connection_count is the
\* number of entries of manager.active_connections, and
\* manager.client_sessions has the keys of manager.active_connections.
C28_CountMatchesConnections ==
    /\ connection_count = Cardinality(DOMAIN active_connections)
    /\ DOMAIN client_sessions = DOMAIN active_connections


\* C29: a lookup returns the result stored under the key as long as the
\* entry is in the cache, also when the key was looked up and missed before
\* it was stored, and nothing for a key that is not (or no longer) in it; the
\* cache never holds more than CACHE_SIZE entries, and the entry evicted is
\* the oldest inserted.
C29_CacheCoherentAndBounded ==
    /\ Len(transcription_cache) <= CacheSize
    /\ t_last.called =>
         /\ t_last.found = t_last.held
         /\ (t_last.held = "None" /\ Len(t_last.before) = CacheSize) =>
              /\ Len(transcription_cache) = CacheSize
              /\ \A i \in 1..(CacheSize - 1) : transcription_cache[i] = t_last.before[i + 1]


\* C30: an alert is requested for a segment exactly when its risk level is
\* "scam", that is when its risk score is at least 70.
C30_AlertIffScamLevel ==
    f_out.done =>
        /\ f_out.alert <=> (f_out.risk_level = "scam")
        /\ f_out.alert <=> RLe(R(70), f_out.risk_score)

====
